---- MODULE Spec2Model ----
(***************************************************************************)
(* A model of the trade lifecycle of CoincallTrader: one trade driven      *)
(* through LifecycleManager (trade_lifecycle.py), the LimitFillManager     *)
(* (trade_execution.py) it delegates to, the venue's view of the limit     *)
(* orders, and the RFQ executor's quote loop (rfq.py).  Modelled on their   *)
(* own: a LimitFillManager with its orders, a StrategyRunner with the      *)
(* trades it owns (strategy.py), and the PositionMonitor worker            *)
(* (account_manager.py).                                                   *)
(*                                                                         *)
(* Quantities are integers (lots).  A symbol is named by the index of the  *)
(* leg that trades it.  Wall-clock time is abstracted: a timestamp is      *)
(* "set" or "not set", and a timeout has either elapsed or not.            *)
(***************************************************************************)
EXTENDS Integers, Sequences, FiniteSets, TLC

\* ------------------------------------------------------------------ bounds
LegQty == 2              \* quantity of every open leg
MaxRequoteRounds == 1    \* ExecutionParams.max_requote_rounds used by the trade
CostRange == 3           \* RFQ costs and baselines range over -CostRange..CostRange
MaxQuotes == 2           \* valid quotes per RFQ poll round
MaxPolls == 2            \* poll rounds before the RFQ times out
ImpRange == 5            \* calculate_improvement is applied to costs in -ImpRange..ImpRange
MaxOverClose == 1        \* recorded close fills beyond the opened quantity that are explored
MaxOverFill == 1         \* position change beyond a leg's quantity seen by the smart executor
MaxTrades == 2           \* trades a StrategyRunner creates
MaxEquity == 2           \* account equity reported by the venue ranges over 1..MaxEquity
MaxCallbacks == 2        \* callbacks registered with a PositionMonitor
MaxDays == 1             \* UTC midnights that pass while a StrategyRunner runs

\* --------------------------------------------------------------- constants
Syms == {1, 2}
Kinds == {"open", "close"}
Slots == Kinds \X Syms
BUY == 1
SELL == 2

VARIABLES
    \* TradeLifecycle fields
    state, open_legs, close_legs, execution_mode, opened_at, closed_at, error,
    \* TradeLifecycle.metadata
    rfq_fallback, smart_config, open_fill_mgr, close_fill_mgr,
    \* the venue: latest order per (kind, symbol), and live orders nobody tracks
    orders, stale,
    \* observation of the run: the states assigned by the last call that
    \* assigned one (preceded by the state it started in), the close fills
    \* recorded by ended close attempts, unwind and CLOSING markers, and whether
    \* OPEN was ever assigned to the state
    path, closedEarlier, unwound, enteredClosing, wasOpen,
    \* RFQExecutor.execute
    rfq,
    \* calculate_improvement applied to one input
    imp,
    \* a LimitFillManager driven on its own, with the venue's orders for its legs
    fm,
    \* a StrategyRunner, the states of the trades it owns and its callback log
    runner,
    \* the PositionMonitor worker
    monitor,
    \* the execution-mode router applied to one trade
    route,
    \* two trades with a leg on one symbol and their shares of its position
    share,
    \* the poller thread and the main thread around a shutdown
    thr,
    \* RFQExecutor.get_orderbook_cost applied to one structure and book
    baseline,
    \* LimitFillManager.place_all applied to one set of legs and books
    placing,
    \* SmartOrderbookExecutor.execute_smart_multi_leg
    smartx,
    \* SmartExecConfig validation applied to one input
    sxcfg,
    \* LifecycleManager.tick evaluating the exit conditions of two trades
    exits,
    \* PositionMonitor start/stop and its poll workers
    workers,
    \* a call through the retry decorator
    rtry

tradeVars == <<state, open_legs, close_legs, execution_mode, opened_at, closed_at, error,
               rfq_fallback, smart_config, open_fill_mgr, close_fill_mgr>>
venueVars == <<orders, stale>>
obsVars == <<path, closedEarlier, unwound, enteredClosing, wasOpen>>
lifeVars == <<tradeVars, venueVars, obsVars>>
moreVars == <<route, share, thr, baseline, placing, smartx, sxcfg, exits, workers, rtry>>
partVars == <<fm, runner, monitor, moreVars>>
vars == <<lifeVars, rfq, imp, partVars>>

\* ----------------------------------------------------------------- helpers
Max(a, b) == IF a > b THEN a ELSE b
Abs(a) == IF a < 0 THEN -a ELSE a

NoMgr == <<>>
NoOrder == [qty |-> 0, fill |-> 0, live |-> FALSE]

\* TradeLeg(symbol, qty, side): order_id None, filled_qty 0
TradeLeg(sym, qty, side) ==
    [symbol |-> sym, qty |-> qty, side |-> side, order_id |-> 0, filled_qty |-> 0]

\* TradeLeg.is_filled / _LegFillState.is_filled
is_filled(leg) == leg.filled_qty >= leg.qty

\* TradeLeg.close_side
close_side(leg) == IF leg.side = BUY THEN SELL ELSE BUY

\* _LegFillState.remaining_qty
remaining_qty(ls) == Max(0, ls.qty - ls.filled_qty)

\* the expression "leg.filled_qty if leg.filled_qty > 0 else leg.qty"
FilledOrQty(leg) == IF leg.filled_qty > 0 THEN leg.filled_qty ELSE leg.qty

\* ------------------------------------------------------------------- venue
\* create order makes the new order the latest one of its slot; an order that is
\* still live when its slot gets a new order stays live at
\* the venue with nobody tracking it: its open quantity is added to stale
StaleAfterPlace(ords, stl, slot) ==
    [stl EXCEPT ![slot] = @ + (IF ords[slot].live THEN ords[slot].qty - ords[slot].fill ELSE 0)]

\* cancel order: the latest orders of the given slots stop being live
VenueCancel(ords, slots) ==
    [sl \in Slots |-> IF sl \in slots THEN [ords[sl] EXCEPT !.live = FALSE] ELSE ords[sl]]

\* -------------------------------------------------------- LimitFillManager
\* _LegFillState for a freshly placed order
LegFillState(leg) ==
    [symbol |-> leg.symbol, qty |-> leg.qty, side |-> leg.side, order_id |-> 1,
     filled_qty |-> 0, requote_count |-> 0]

\* LimitFillManager.cancel_all: the orders it cancels
CancelAllSlots(mgr, kind) ==
    {<<kind, mgr[i].symbol>> : i \in {j \in DOMAIN mgr : mgr[j].order_id # 0 /\ ~is_filled(mgr[j])}}

cancel_all(mgr, kind, ords) == VenueCancel(ords, CancelAllSlots(mgr, kind))

\* LimitFillManager.place_all.  failAt = 0: every leg is priced and placed;
\* failAt = k: leg k has no price or its order is rejected, the orders placed
\* for legs 1..k-1 are cancelled (cancel_all) and the call returns False.
place_all(legs, kind, failAt, ords, stl) ==
    LET n == Len(legs)
        upto == IF failAt = 0 THEN n ELSE failAt - 1
        placedIdx == 1..upto
        slotOf(i) == <<kind, legs[i].symbol>>
        placedSlots == {slotOf(i) : i \in placedIdx}
        qtyOf(sl) == (CHOOSE i \in placedIdx : slotOf(i) = sl)
        ords1 == [sl \in Slots |-> IF sl \in placedSlots
                                   THEN [qty |-> legs[qtyOf(sl)].qty, fill |-> 0, live |-> TRUE]
                                   ELSE ords[sl]]
        stl1 == [sl \in Slots |-> IF sl \in placedSlots
                                  THEN StaleAfterPlace(ords, stl, sl)[sl] ELSE stl[sl]]
        mgr1 == [i \in placedIdx |-> LegFillState(legs[i])]
    IN  [ok |-> failAt = 0,
         mgr |-> mgr1,
         legs |-> [i \in 1..n |-> IF i \in placedIdx THEN [legs[i] EXCEPT !.order_id = 1] ELSE legs[i]],
         orders |-> IF failAt = 0 THEN ords1 ELSE cancel_all(mgr1, kind, ords1),
         stale |-> stl1]

\* LimitFillManager.check, step 1, for one leg: polled says whether
\* get_order_status answered for it
PollLeg(ls, kind, ords, polled) ==
    IF is_filled(ls) \/ ls.order_id = 0 \/ ls.symbol \notin polled THEN ls
    ELSE LET executed == ords[<<kind, ls.symbol>>].fill
         IN  IF executed > ls.filled_qty THEN [ls EXCEPT !.filled_qty = executed] ELSE ls

\* LimitFillManager._requote_unfilled: okSet holds the symbols whose requote
\* finds a price and whose new order is accepted
RequotedIdx(mgr) == {i \in DOMAIN mgr : ~is_filled(mgr[i]) /\ mgr[i].order_id # 0}

requote_unfilled(mgr, kind, okSet, ords, stl) ==
    LET idx == RequotedIdx(mgr)
        slotOf(i) == <<kind, mgr[i].symbol>>
        cancelled == VenueCancel(ords, {slotOf(i) : i \in idx})
        placedIdx == {i \in idx : mgr[i].symbol \in okSet}
        placedSlots == {slotOf(i) : i \in placedIdx}
        legOf(sl) == mgr[CHOOSE i \in placedIdx : slotOf(i) = sl]
    IN  [mgr |-> [i \in DOMAIN mgr |->
                    IF i \in placedIdx
                    THEN [mgr[i] EXCEPT !.order_id = 1, !.requote_count = @ + 1]
                    ELSE mgr[i]],
         orders |-> [sl \in Slots |-> IF sl \in placedSlots
                                      THEN [qty |-> remaining_qty(legOf(sl)), fill |-> 0, live |-> TRUE]
                                      ELSE cancelled[sl]],
         stale |-> [sl \in Slots |-> IF sl \in placedSlots
                                     THEN StaleAfterPlace(cancelled, stl, sl)[sl] ELSE stl[sl]]]

\* LimitFillManager.check
check(mgr, kind, polled, timedOut, okSet, ords, stl) ==
    LET legs1 == [i \in DOMAIN mgr |-> PollLeg(mgr[i], kind, ords, polled)]
        unfilled == {i \in DOMAIN legs1 : ~is_filled(legs1[i])}
        exhausted == \E i \in unfilled : legs1[i].requote_count >= MaxRequoteRounds
        same == [mgr |-> legs1, orders |-> ords, stale |-> stl]
    IN  IF unfilled = {} THEN [result |-> "filled"] @@ same
        ELSE IF ~timedOut THEN [result |-> "pending"] @@ same
        ELSE IF exhausted THEN [result |-> "failed"] @@ same
        ELSE [result |-> "requoted"] @@ requote_unfilled(legs1, kind, okSet, ords, stl)

\* "for ls, leg in zip(mgr.filled_legs, legs)": fill data written back
SyncLegs(legs, mgr) ==
    [i \in DOMAIN legs |->
        IF i \in DOMAIN mgr
        THEN [legs[i] EXCEPT !.filled_qty = mgr[i].filled_qty, !.order_id = mgr[i].order_id]
        ELSE legs[i]]

\* --------------------------------------------------------- LifecycleManager
\* The trade, the venue and the observation of the run, as one record that
\* the operations below transform; ret is the value the call returns.
\* Apply installs the result.
Cur == [state |-> state, open_legs |-> open_legs, close_legs |-> close_legs,
        execution_mode |-> execution_mode, opened_at |-> opened_at,
        closed_at |-> closed_at, error |-> error,
        open_fill_mgr |-> open_fill_mgr, close_fill_mgr |-> close_fill_mgr,
        orders |-> orders, stale |-> stale,
        path |-> <<state>>, ret |-> "None", closedEarlier |-> closedEarlier,
        unwound |-> unwound, enteredClosing |-> enteredClosing, wasOpen |-> wasOpen,
        rfq_calls |-> 0, close_via |-> <<>>]

Apply(t) ==
    /\ state' = t.state
    /\ open_legs' = t.open_legs
    /\ close_legs' = t.close_legs
    /\ execution_mode' = t.execution_mode
    /\ opened_at' = t.opened_at
    /\ closed_at' = t.closed_at
    /\ error' = t.error
    /\ open_fill_mgr' = t.open_fill_mgr
    /\ close_fill_mgr' = t.close_fill_mgr
    /\ orders' = t.orders
    /\ stale' = t.stale
    /\ path' = IF Len(t.path) > 1 THEN t.path ELSE path
    /\ closedEarlier' = t.closedEarlier
    /\ unwound' = t.unwound
    /\ enteredClosing' = t.enteredClosing
    /\ wasOpen' = t.wasOpen
    /\ UNCHANGED <<rfq_fallback, smart_config, rfq, imp, partVars>>

\* "trade.state = s"
SetState(t, s) ==
    [t EXCEPT !.state = s, !.path = Append(@, s), !.wasOpen = @ \/ (s = "OPEN")]

\* recorded filled quantity of the close leg of a symbol (0 when it has none)
ClosedIn(legs, sym) ==
    IF \E i \in DOMAIN legs : legs[i].symbol = sym
    THEN legs[CHOOSE i \in DOMAIN legs : legs[i].symbol = sym].filled_qty
    ELSE 0

\* observation only: a close attempt ended without CLOSED, its recorded fills
\* join the fills of the earlier attempts
EndAttempt(t) ==
    [t EXCEPT !.closedEarlier = [s \in Syms |-> @[s] + ClosedIn(t.close_legs, s)]]

\* LifecycleManager._determine_execution_mode
RfqNotionalThreshold == 50000
SmartNotionalThreshold == 10000
NotionalSamples == {9999, 10000, 49999, 50000}

\* C24 mutant: the single-leg rule is skipped
determine_execution_mode_NoSingleLeg(legs, notional) ==
    IF notional >= RfqNotionalThreshold THEN "rfq"
    ELSE IF notional >= SmartNotionalThreshold THEN "smart"
    ELSE "limit"

determine_execution_mode(legs, notional) ==
    IF Len(legs) = 1 THEN "limit"
    ELSE IF notional >= RfqNotionalThreshold THEN "rfq"
    ELSE IF notional >= SmartNotionalThreshold THEN "smart"
    ELSE "limit"

\* LifecycleManager._calculate_notional: mark * qty summed over the legs; a leg
\* whose orderbook cannot be fetched (symbol not in avail) or whose mark is
\* not positive adds nothing
RECURSIVE calculate_notional(_, _, _)
calculate_notional(legs, marks, avail) ==
    IF legs = <<>> THEN 0
    ELSE LET leg == Head(legs)
             mark_price == marks[leg.symbol]
         IN  (IF leg.symbol \notin avail \/ mark_price <= 0 THEN 0 ELSE mark_price * leg.qty)
             + calculate_notional(Tail(legs), marks, avail)

\* LifecycleManager.open, lines 455-457: the mode the trade is routed by
\* ("auto": execution_mode is None)
route_mode(mode, legs, notional) ==
    IF mode = "auto" THEN determine_execution_mode(legs, notional)
    ELSE mode

\* C18 mutant: a placement failure fails the trade without an error text
open_limit_NoError(t, in) ==
    LET t1 == SetState(t, "OPENING")
        r == place_all(t1.open_legs, "open", in.failAt, t1.orders, t1.stale)
        t2 == [t1 EXCEPT !.open_legs = r.legs, !.orders = r.orders, !.stale = r.stale]
    IN  IF ~r.ok
        THEN [SetState(t2, "FAILED") EXCEPT !.ret = "False"]
        ELSE [t2 EXCEPT !.open_fill_mgr = r.mgr, !.ret = "True"]

\* LifecycleManager._open_limit
open_limit(t, in) ==
    LET t1 == SetState(t, "OPENING")
        r == place_all(t1.open_legs, "open", in.failAt, t1.orders, t1.stale)
        t2 == [t1 EXCEPT !.open_legs = r.legs, !.orders = r.orders, !.stale = r.stale]
    IN  IF ~r.ok
        THEN [SetState([t2 EXCEPT !.error = "Failed to place one or more open orders"], "FAILED")
                EXCEPT !.ret = "False"]
        ELSE [t2 EXCEPT !.open_fill_mgr = r.mgr, !.ret = "True"]

\* LifecycleManager._open_smart.  in.smartOk: execute_smart_multi_leg returned
\* success; in.smartFill: its total_filled_qty per leg, which is the absolute
\* change of the account's position in the leg's symbol during the execution
\* (multileg_orderbook.py:363-371), whoever traded it
open_smart(t, in) ==
    IF ~smart_config
    THEN [SetState([t EXCEPT !.error = "smart_config required"], "FAILED") EXCEPT !.ret = "False"]
    ELSE LET t1 == SetState(t, "OPENING")
         IN  IF in.smartOk
             THEN [SetState([t1 EXCEPT !.open_legs =
                                [i \in DOMAIN t.open_legs |->
                                    [t.open_legs[i] EXCEPT !.filled_qty = in.smartFill[i]]]],
                            "OPEN")
                     EXCEPT !.opened_at = TRUE, !.ret = "True"]
             ELSE [SetState([t1 EXCEPT !.error = "smart execution failed"], "FAILED")
                     EXCEPT !.ret = "False"]

\* LifecycleManager._open_rfq.  in.rfqOk: RFQExecutor.execute returned success;
\* rfq_calls counts the calls of RFQExecutor.execute made by the running call
open_rfq(t0, in) ==
    LET t == [t0 EXCEPT !.rfq_calls = @ + 1] IN
    IF in.rfqOk
    THEN [SetState(t, "OPEN")
            EXCEPT !.opened_at = TRUE,
                   !.open_legs = [i \in DOMAIN t.open_legs |->
                                     [t.open_legs[i] EXCEPT !.filled_qty = t.open_legs[i].qty]],
                   !.ret = "True"]
    ELSE IF rfq_fallback # "none"
         THEN LET t1 == [t EXCEPT !.execution_mode = rfq_fallback]
              IN  IF rfq_fallback = "smart" THEN open_smart(t1, in) ELSE open_limit(t1, in)
         ELSE [SetState(t, "FAILED") EXCEPT !.error = "rfq failed", !.ret = "False"]

\* LifecycleManager.open
open(t, in) ==
    IF t.state # "PENDING_OPEN" THEN [t EXCEPT !.ret = "False"]
    ELSE LET mode == route_mode(t.execution_mode, t.open_legs, in.notional)
             t1 == [t EXCEPT !.execution_mode = mode]
         IN  IF mode = "rfq" THEN open_rfq(t1, in)
             ELSE IF mode = "smart" THEN open_smart(t1, in)
             ELSE open_limit(t1, in)

\* _close_limit, lines 705-721: close legs rebuilt from the open legs and the
\* fills recorded on the previous close legs
old_close_filled(closeLegs, sym) ==
    LET idx == {i \in DOMAIN closeLegs : closeLegs[i].symbol = sym /\ closeLegs[i].filled_qty > 0}
    IN  IF idx = {} THEN 0
        ELSE closeLegs[CHOOSE i \in idx : \A j \in idx : j <= i].filled_qty

\* C2 mutant: the close legs are rebuilt without subtracting the recorded fills
RebuildCloseLegs_NoSubtract(openLegs, closeLegs) ==
    LET all == [i \in DOMAIN openLegs |->
                  TradeLeg(openLegs[i].symbol, FilledOrQty(openLegs[i]), close_side(openLegs[i]))]
    IN  SelectSeq(all, LAMBDA l : l.qty > 0)

RebuildCloseLegs(openLegs, closeLegs) ==
    LET all == [i \in DOMAIN openLegs |->
                  TradeLeg(openLegs[i].symbol,
                           FilledOrQty(openLegs[i]) - old_close_filled(closeLegs, openLegs[i].symbol),
                           close_side(openLegs[i]))]
    IN  SelectSeq(all, LAMBDA l : l.qty > 0)

\* LifecycleManager._close_limit
close_limit(t, in) ==
    LET t1 == [SetState(t, "CLOSING") EXCEPT !.enteredClosing = TRUE,
                                               !.close_via = Append(@, "limit")]
        t2 == [t1 EXCEPT !.close_legs = RebuildCloseLegs(t1.open_legs, t1.close_legs)]
        r == place_all(t2.close_legs, "close", in.failAt, t2.orders, t2.stale)
        t3 == [t2 EXCEPT !.close_legs = r.legs, !.orders = r.orders, !.stale = r.stale]
    IN  IF t2.close_legs = <<>>
        THEN [SetState(t2, "CLOSED") EXCEPT !.closed_at = TRUE, !.ret = "True"]
        ELSE IF ~r.ok
        THEN [EndAttempt(SetState(t3, "PENDING_CLOSE")) EXCEPT !.ret = "False"]
        ELSE [t3 EXCEPT !.close_fill_mgr = r.mgr, !.ret = "True"]

\* C22 mutant: the fallback of a failed RFQ close leaves execution_mode alone
close_rfq_KeepMode(t0, in) ==
    LET t == [t0 EXCEPT !.rfq_calls = @ + 1, !.close_via = Append(@, "rfq")] IN
    IF in.rfqOk
    THEN [SetState(t, "CLOSED")
            EXCEPT !.closed_at = TRUE,
                   !.close_legs = [i \in DOMAIN t.close_legs |->
                                      [t.close_legs[i] EXCEPT !.filled_qty = t.close_legs[i].qty]],
                   !.ret = "True"]
    ELSE IF rfq_fallback # "none"
         THEN close_limit(t, in)
         ELSE [SetState(t, "PENDING_CLOSE") EXCEPT !.ret = "False"]

\* LifecycleManager._close_rfq
close_rfq(t0, in) ==
    LET t == [t0 EXCEPT !.rfq_calls = @ + 1, !.close_via = Append(@, "rfq")] IN
    IF in.rfqOk
    THEN [SetState(t, "CLOSED")
            EXCEPT !.closed_at = TRUE,
                   !.close_legs = [i \in DOMAIN t.close_legs |->
                                      [t.close_legs[i] EXCEPT !.filled_qty = t.close_legs[i].qty]],
                   !.ret = "True"]
    ELSE IF rfq_fallback # "none"
         THEN close_limit([t EXCEPT !.execution_mode = rfq_fallback], in)
         ELSE [SetState(t, "PENDING_CLOSE") EXCEPT !.ret = "False"]

\* LifecycleManager.close
close(t, in) ==
    IF t.state \notin {"OPEN", "PENDING_CLOSE"} THEN [t EXCEPT !.ret = "False"]
    ELSE IF t.execution_mode = "rfq"
         THEN close_rfq([t EXCEPT !.close_legs =
                            [i \in DOMAIN t.open_legs |->
                                TradeLeg(t.open_legs[i].symbol, FilledOrQty(t.open_legs[i]),
                                         close_side(t.open_legs[i]))]], in)
         ELSE close_limit(t, in)

\* C4 mutant: the unwind keeps every open leg
unwind_filled_legs_NoTrim(t, filled_legs) ==
    LET t1 == SetState(t, "OPEN")
    IN  [SetState([t1 EXCEPT !.opened_at = TRUE], "PENDING_CLOSE") EXCEPT !.unwound = TRUE]

\* LifecycleManager._unwind_filled_legs
unwind_filled_legs(t, filled_legs) ==
    LET t1 == SetState([t EXCEPT !.open_legs = filled_legs], "OPEN")
    IN  [SetState([t1 EXCEPT !.opened_at = TRUE], "PENDING_CLOSE") EXCEPT !.unwound = TRUE]

\* C16 mutant: the "filled" branch reaches OPEN without stamping opened_at
check_open_fills_NoOpenedAt(t, in) ==
    IF t.open_fill_mgr = NoMgr THEN t
    ELSE LET r == check(t.open_fill_mgr, "open", in.polled, in.timedOut, in.okSet, t.orders, t.stale)
             t1 == [t EXCEPT !.open_fill_mgr = r.mgr, !.orders = r.orders, !.stale = r.stale]
             t2 == [t1 EXCEPT !.open_legs = SyncLegs(@, r.mgr)]
             t3 == [t2 EXCEPT !.orders = cancel_all(r.mgr, "open", @)]
             filled_legs == SelectSeq(t3.open_legs, LAMBDA l : l.filled_qty > 0)
         IN  CASE r.result = "filled" -> SetState(t2, "OPEN")
               [] r.result = "failed" ->
                    IF filled_legs # <<>> THEN unwind_filled_legs(t3, filled_legs)
                    ELSE [SetState(t3, "FAILED") EXCEPT !.error = "Fill timeout exhausted, no fills"]
               [] r.result = "requoted" -> t2
               [] OTHER -> t1

\* LifecycleManager._check_open_fills
check_open_fills(t, in) ==
    IF t.open_fill_mgr = NoMgr THEN t
    ELSE LET r == check(t.open_fill_mgr, "open", in.polled, in.timedOut, in.okSet, t.orders, t.stale)
             t1 == [t EXCEPT !.open_fill_mgr = r.mgr, !.orders = r.orders, !.stale = r.stale]
             t2 == [t1 EXCEPT !.open_legs = SyncLegs(@, r.mgr)]
             t3 == [t2 EXCEPT !.orders = cancel_all(r.mgr, "open", @)]
             filled_legs == SelectSeq(t3.open_legs, LAMBDA l : l.filled_qty > 0)
         IN  CASE r.result = "filled" -> [SetState(t2, "OPEN") EXCEPT !.opened_at = TRUE]
               [] r.result = "failed" ->
                    IF filled_legs # <<>> THEN unwind_filled_legs(t3, filled_legs)
                    ELSE [SetState(t3, "FAILED") EXCEPT !.error = "Fill timeout exhausted, no fills"]
               [] r.result = "requoted" -> t2
               [] OTHER -> t1

\* C17 mutant: the "filled" branch reaches CLOSED without stamping closed_at
check_close_fills_NoClosedAt(t, in) ==
    IF t.close_fill_mgr = NoMgr THEN t
    ELSE LET r == check(t.close_fill_mgr, "close", in.polled, in.timedOut, in.okSet, t.orders, t.stale)
             t1 == [t EXCEPT !.close_fill_mgr = r.mgr, !.orders = r.orders, !.stale = r.stale]
             t2 == [t1 EXCEPT !.close_legs = SyncLegs(@, r.mgr)]
             t3 == [t2 EXCEPT !.orders = cancel_all(r.mgr, "close", @)]
         IN  CASE r.result = "filled" -> SetState(t2, "CLOSED")
               [] r.result = "failed" -> EndAttempt(SetState(t3, "PENDING_CLOSE"))
               [] r.result = "requoted" -> t2
               [] OTHER -> t1

\* LifecycleManager._check_close_fills
check_close_fills(t, in) ==
    IF t.close_fill_mgr = NoMgr THEN t
    ELSE LET r == check(t.close_fill_mgr, "close", in.polled, in.timedOut, in.okSet, t.orders, t.stale)
             t1 == [t EXCEPT !.close_fill_mgr = r.mgr, !.orders = r.orders, !.stale = r.stale]
             t2 == [t1 EXCEPT !.close_legs = SyncLegs(@, r.mgr)]
             t3 == [t2 EXCEPT !.orders = cancel_all(r.mgr, "close", @)]
         IN  CASE r.result = "filled" -> [SetState(t2, "CLOSED") EXCEPT !.closed_at = TRUE]
               [] r.result = "failed" -> EndAttempt(SetState(t3, "PENDING_CLOSE"))
               [] r.result = "requoted" -> t2
               [] OTHER -> t1

\* LifecycleManager._evaluate_exits: in.exit says whether some exit condition
\* returned True
evaluate_exits(t, in) ==
    IF in.exit THEN SetState(t, "PENDING_CLOSE") ELSE t

\* LifecycleManager.tick, for the one trade
tick(t, in) ==
    [(CASE t.state = "OPENING" -> check_open_fills(t, in)
        [] t.state = "OPEN" -> evaluate_exits(t, in)
        [] t.state = "PENDING_CLOSE" -> close(t, in)
        [] t.state = "CLOSING" -> check_close_fills(t, in)
        [] OTHER -> t) EXCEPT !.ret = "None"]

\* LifecycleManager._cancel_placed_orders / the leg-based cancel of cancel()
CancelPlacedSlots(legs, kind) ==
    {<<kind, legs[i].symbol>> : i \in {j \in DOMAIN legs : legs[j].order_id # 0 /\ ~is_filled(legs[j])}}

\* C19 mutant: cancel without its state test
cancel_AnyState(t) ==
    LET t1 == IF t.open_fill_mgr # NoMgr
              THEN [t EXCEPT !.open_legs = SyncLegs(@, t.open_fill_mgr),
                             !.orders = cancel_all(t.open_fill_mgr, "open", @)]
              ELSE [t EXCEPT !.orders = VenueCancel(@, CancelPlacedSlots(t.open_legs, "open"))]
        filled_legs == SelectSeq(t1.open_legs, is_filled)
    IN  IF filled_legs # <<>>
        THEN [unwind_filled_legs(t1, filled_legs) EXCEPT !.ret = "True"]
        ELSE [SetState(t1, "FAILED") EXCEPT !.error = "Cancelled by user", !.ret = "True"]

\* LifecycleManager.cancel
cancel(t) ==
    IF t.state \notin {"PENDING_OPEN", "OPENING"} THEN [t EXCEPT !.ret = "False"]
    ELSE LET t1 == IF t.open_fill_mgr # NoMgr
                   THEN [t EXCEPT !.open_legs = SyncLegs(@, t.open_fill_mgr),
                                  !.orders = cancel_all(t.open_fill_mgr, "open", @)]
                   ELSE [t EXCEPT !.orders = VenueCancel(@, CancelPlacedSlots(t.open_legs, "open"))]
             filled_legs == SelectSeq(t1.open_legs, is_filled)
         IN  IF filled_legs # <<>>
             THEN [unwind_filled_legs(t1, filled_legs) EXCEPT !.ret = "True"]
             ELSE [SetState(t1, "FAILED") EXCEPT !.error = "Cancelled by user", !.ret = "True"]

\* LifecycleManager.force_close
force_close(t) ==
    CASE t.state = "OPEN" -> [SetState(t, "PENDING_CLOSE") EXCEPT !.ret = "True"]
      [] t.state = "PENDING_CLOSE" -> [t EXCEPT !.ret = "True"]
      [] t.state \in {"PENDING_OPEN", "OPENING"} -> cancel(t)
      [] t.state = "CLOSING" ->
           LET t1 == IF t.close_fill_mgr # NoMgr
                     THEN [t EXCEPT !.close_legs = SyncLegs(@, t.close_fill_mgr),
                                    !.orders = cancel_all(t.close_fill_mgr, "close", @)]
                     ELSE [t EXCEPT !.orders = VenueCancel(@, CancelPlacedSlots(t.close_legs, "close"))]
           IN  [EndAttempt(SetState(t1, "PENDING_CLOSE")) EXCEPT !.ret = "True"]
      [] OTHER -> [t EXCEPT !.ret = "False"]

\* ------------------------------------------------------------ specification
States == {"PENDING_OPEN", "OPENING", "OPEN", "PENDING_CLOSE", "CLOSING", "CLOSED", "FAILED"}

RfqIdle == [phase |-> "idle"]
ImpIdle == [phase |-> "idle"]

\* the parts modelled on their own are not running
MoreIdle ==
    /\ route = [phase |-> "idle"]
    /\ share = [phase |-> "idle"]
    /\ thr = [phase |-> "idle"]
    /\ baseline = [phase |-> "idle"]
    /\ placing = [phase |-> "idle"]
    /\ smartx = [phase |-> "idle"]
    /\ sxcfg = [phase |-> "idle"]
    /\ exits = [phase |-> "idle"]
    /\ workers = [phase |-> "idle"]
    /\ rtry = [phase |-> "idle"]

PartsIdle ==
    /\ fm = [phase |-> "idle"]
    /\ runner = [phase |-> "idle"]
    /\ monitor = [phase |-> "idle"]
    /\ MoreIdle

\* execution_mode ("auto" for None), metadata["rfq_fallback"] ("none" for None)
\* and whether smart_config is given, as create() receives them
Configs ==
    {<<"auto", "limit", TRUE>>, <<"limit", "limit", TRUE>>,
     <<"rfq", "none", TRUE>>, <<"rfq", "limit", TRUE>>, <<"rfq", "smart", TRUE>>,
     <<"rfq", "smart", FALSE>>, <<"smart", "smart", TRUE>>, <<"smart", "none", FALSE>>}

\* LifecycleManager.create: a trade in PENDING_OPEN with one or two legs
InitTrade ==
    /\ state = "PENDING_OPEN"
    /\ open_legs \in {<<TradeLeg(1, LegQty, BUY)>>,
                      <<TradeLeg(1, LegQty, BUY), TradeLeg(2, LegQty, SELL)>>}
    /\ close_legs = <<>>
    /\ opened_at = FALSE
    /\ closed_at = FALSE
    /\ error = ""
    /\ \E c \in Configs : execution_mode = c[1] /\ rfq_fallback = c[2] /\ smart_config = c[3]
    /\ open_fill_mgr = NoMgr
    /\ close_fill_mgr = NoMgr
    /\ orders = [sl \in Slots |-> NoOrder]
    /\ stale = [sl \in Slots |-> 0]
    /\ path = <<"PENDING_OPEN">>
    /\ closedEarlier = [s \in Syms |-> 0]
    /\ unwound = FALSE
    /\ enteredClosing = FALSE
    /\ wasOpen = FALSE

Init == InitTrade /\ rfq = RfqIdle /\ imp = ImpIdle /\ PartsIdle

LegIdx == DOMAIN open_legs

\* Inputs are drawn only where the call reads them in the current state.
\* Order-status polls and requote placements succeed for all legs or for none.
Bools(read) == IF read THEN BOOLEAN ELSE {FALSE}
SymSets(read) == IF read THEN {{}, Syms} ELSE {{}}
FailAts(read) == IF read THEN 0..Len(open_legs) ELSE {0}
MayUseRfq == execution_mode \in {"auto", "rfq"}
MayUseSmart == execution_mode \in {"auto", "smart"} \/ (MayUseRfq /\ rfq_fallback = "smart")

\* position changes reported by the smart executor: any part of each leg, or
\* every leg's symbol moved by more than the leg's quantity
SmartFills ==
    [LegIdx -> 0..LegQty] \cup {[i \in LegIdx |-> LegQty + k] : k \in 1..MaxOverFill}

\* a call of manager.open(trade_id)
Open ==
    LET pend == state = "PENDING_OPEN" IN
    \E notional \in (IF pend /\ execution_mode = "auto" THEN NotionalSamples ELSE {0}),
       rfqOk \in Bools(pend /\ MayUseRfq), smartOk \in Bools(pend /\ MayUseSmart),
       smartFill \in (IF pend /\ MayUseSmart THEN SmartFills ELSE {[i \in LegIdx |-> 0]}),
       failAt \in FailAts(pend) :
        Apply(open(Cur, [notional |-> notional, rfqOk |-> rfqOk, smartOk |-> smartOk,
                                 smartFill |-> smartFill, failAt |-> failAt]))

\* a call of manager.close(trade_id)
Close ==
    LET closeable == state \in {"OPEN", "PENDING_CLOSE"} IN
    \E rfqOk \in Bools(closeable /\ execution_mode = "rfq"), failAt \in FailAts(closeable) :
        Apply(close(Cur, [rfqOk |-> rfqOk, failAt |-> failAt]))

\* a call of manager.tick(account)
Tick ==
    LET checking == state \in {"OPENING", "CLOSING"}
        closing == state = "PENDING_CLOSE" IN
    \E polled \in SymSets(checking), timedOut \in Bools(checking) :
    \E okSet \in SymSets(checking /\ timedOut),
       exit \in Bools(state = "OPEN"), rfqOk \in Bools(closing /\ execution_mode = "rfq"),
       failAt \in FailAts(closing) :
        Apply(tick(Cur, [polled |-> polled, timedOut |-> timedOut, okSet |-> okSet,
                                 exit |-> exit, rfqOk |-> rfqOk, failAt |-> failAt]))

\* a call of manager.force_close(trade_id)
ForceClose == \E t \in {force_close(Cur)} : Apply(t)

\* a call of manager.cancel(trade_id)
Cancel == \E t \in {cancel(Cur)} : Apply(t)

\* the venue fills one lot of a live order (the run is cut off once the close
\* fills recorded for a symbol exceed the opened quantity by MaxOverClose)
VenueFill ==
    \E sl \in Slots :
        /\ orders[sl].live
        /\ orders[sl].fill < orders[sl].qty
        /\ sl[1] = "close" => closedEarlier[sl[2]] + orders[sl].fill < LegQty + MaxOverClose
        /\ orders' = [orders EXCEPT ![sl] = [qty |-> orders[sl].qty,
                                              fill |-> orders[sl].fill + 1,
                                              live |-> orders[sl].fill + 1 < orders[sl].qty]]
        /\ UNCHANGED <<tradeVars, stale, obsVars, rfq, imp, partVars>>

Next == Open \/ Close \/ Tick \/ ForceClose \/ Cancel \/ VenueFill

Spec == Init /\ [][Next]_vars

\* the same trades with one leg, and ticks that keep coming (tick is the
\* PositionMonitor callback: it is called on every account update)
FairInit == Init /\ Len(open_legs) = 1
FairSpec == FairInit /\ [][Next]_vars /\ WF_vars(Tick)

\* ------------------------------------------------------------- RFQExecutor
\* A percentage is kept exact, as the pair <<numerator, denominator>> with a
\* positive denominator.
Pct(n, d) == <<n, d>>
PctLess(x, m) == x[1] < m * x[2]

\* RFQExecutor.calculate_improvement(quote_cost, orderbook_cost)
calculate_improvement(quote_cost, orderbook_cost) ==
    IF orderbook_cost = 0 THEN Pct(0, 1)
    ELSE IF orderbook_cost > 0
         THEN Pct((orderbook_cost - quote_cost) * 100, Abs(orderbook_cost))
         ELSE Pct((quote_cost - orderbook_cost) * 100, Abs(orderbook_cost))

Costs == (0 - CostRange)..CostRange

\* "valid_quotes.sort(key=lambda q: q.total_cost)": a stable sort by cost
RECURSIVE InsertQuote(_, _)
InsertQuote(sorted, q) ==
    IF sorted = <<>> THEN <<q>>
    ELSE IF q < Head(sorted) THEN <<q>> \o sorted
    ELSE <<Head(sorted)>> \o InsertQuote(Tail(sorted), q)

RECURSIVE SortQuotes(_)
SortQuotes(qs) ==
    IF qs = <<>> THEN <<>> ELSE InsertQuote(SortQuotes(SubSeq(qs, 1, Len(qs) - 1)), qs[Len(qs)])

\* the quote sets a poll can return: up to MaxQuotes valid quotes, by total_cost
QuoteSeqs == UNION {[1..n -> Costs] : n \in 0..MaxQuotes}

\* min_improvement_pct values: the default (accept anything) and two gates
MinImprovements == {-999, 0, 50}

\* C23 mutant: execute returns without ever calling cancel_rfq
RfqResult_NoCancel(r, ok, cost, impr, ix, cancelled) ==
    [r EXCEPT !.phase = "done", !.success = ok, !.total_cost = cost, !.improvement_pct = impr,
              !.acceptedIdx = ix, !.cancelled = FALSE]

\* the RFQResult execute returns; cancelled: cancel_rfq was called
RfqResult(r, ok, cost, impr, ix, cancelled) ==
    [r EXCEPT !.phase = "done", !.success = ok, !.total_cost = cost, !.improvement_pct = impr,
              !.acceptedIdx = ix, !.cancelled = cancelled]

\* execute(), lines 506-540: baseline, create_rfq
RfqStart ==
    /\ rfq.phase = "idle"
    /\ \E known \in BOOLEAN, b \in Costs, m \in MinImprovements, created \in BOOLEAN :
          /\ ~known => b = 0
          /\ rfq' = [phase |-> IF created THEN "polling" ELSE "done",
                     baseline_known |-> known, orderbook_cost |-> b,
                     min_improvement_pct |-> m, polls |-> 0, valid_quotes |-> <<>>,
                     success |-> FALSE, total_cost |-> 0, improvement_pct |-> Pct(0, 1),
                     acceptedIdx |-> 0, cancelled |-> FALSE,
                     created |-> created, accepts |-> 0, raised |-> FALSE]
    /\ UNCHANGED <<lifeVars, imp, partVars>>

\* execute(), one round of the poll loop (lines 543-624): the valid quotes are
\* sorted, the best one is held against the gate, then the quotes are tried
\* in order until accept_quote succeeds; okIdx holds the positions whose
\* accept_quote would succeed
RfqPoll ==
    /\ rfq.phase = "polling"
    /\ rfq.polls < MaxPolls
    /\ \E raw \in QuoteSeqs :
       LET valid_quotes == SortQuotes(raw)
           r == [rfq EXCEPT !.polls = @ + 1, !.valid_quotes = valid_quotes]
           gated == /\ rfq.baseline_known
                    /\ PctLess(calculate_improvement(valid_quotes[1], rfq.orderbook_cost),
                               rfq.min_improvement_pct)
       IN  IF valid_quotes = <<>> \/ gated
           THEN rfq' = r
           ELSE \E okIdx \in SUBSET (1..Len(valid_quotes)) :
                   IF okIdx = {}
                   THEN rfq' = r
                   ELSE LET ix == CHOOSE i \in okIdx : \A j \in okIdx : i <= j
                            q == valid_quotes[ix]
                            impr == IF rfq.baseline_known
                                    THEN calculate_improvement(q, rfq.orderbook_cost)
                                    ELSE Pct(0, 1)
                            \* accept_quote was called for the quotes 1..ix
                            made == Cardinality(okIdx \cap (1..ix))
                        IN  rfq' = [RfqResult(r, TRUE, q, impr, ix, FALSE) EXCEPT !.accepts = made]
    /\ UNCHANGED <<lifeVars, imp, partVars>>

\* execute(), lines 626-629: the loop ended without an accepted quote
RfqTimeout ==
    /\ rfq.phase = "polling"
    /\ rfq' = RfqResult(rfq, FALSE, 0, Pct(0, 1), 0, TRUE)
    /\ UNCHANGED <<lifeVars, imp, partVars>>

\* execute(), lines 631-638: get_quotes or the handling of its answer raised
\* inside the poll loop; the handler cancels the RFQ
RfqRaise ==
    /\ rfq.phase = "polling"
    /\ rfq.polls < MaxPolls
    /\ rfq' = [RfqResult(rfq, FALSE, 0, Pct(0, 1), 0, TRUE) EXCEPT !.raised = TRUE]
    /\ UNCHANGED <<lifeVars, imp, partVars>>

\* one trade, not yet opened, while the RFQ executor runs
OneTrade ==
    /\ InitTrade
    /\ execution_mode = "rfq" /\ rfq_fallback = "none" /\ smart_config /\ Len(open_legs) = 2

RfqInit == OneTrade /\ rfq = RfqIdle /\ imp = ImpIdle /\ PartsIdle
RfqNext == RfqStart \/ RfqPoll \/ RfqTimeout \/ RfqRaise
RfqSpec == RfqInit /\ [][RfqNext]_vars

\* calculate_improvement applied to one pair of costs
ImpInit ==
    /\ OneTrade
    /\ rfq = RfqIdle
    /\ PartsIdle
    /\ \E q \in (0 - ImpRange)..ImpRange, b \in (0 - ImpRange)..ImpRange :
          imp = [phase |-> "input", quote_cost |-> q, orderbook_cost |-> b, result |-> Pct(0, 1)]

ImpCall ==
    /\ imp.phase = "input"
    /\ imp' = [imp EXCEPT !.phase = "done",
                          !.result = calculate_improvement(imp.quote_cost, imp.orderbook_cost)]
    /\ UNCHANGED <<lifeVars, rfq, partVars>>

ImpSpec == ImpInit /\ [][ImpCall]_vars

\* ------------------------------------------ LimitFillManager on its own
\* The manager is driven directly: place_all once, then check() at any time,
\* while the venue fills its orders.  fm.executed is the quantity the venue
\* executed for a symbol over every order placed for it; fm.result is the
\* value of the last check(); fm.polledAll says that the last check() got an
\* order status for every leg and that nothing was executed since.
FmLegs == {<<TradeLeg(1, LegQty, BUY)>>,
           <<TradeLeg(1, LegQty, BUY), TradeLeg(2, LegQty, SELL)>>}

\* LimitFillManager.__init__
FmNew == [phase |-> "new", mgr |-> <<>>,
          orders |-> [sl \in Slots |-> NoOrder], stale |-> [sl \in Slots |-> 0],
          executed |-> [s \in Syms |-> 0], result |-> "none", polledAll |-> FALSE]

FmInit ==
    /\ OneTrade /\ rfq = RfqIdle /\ imp = ImpIdle
    /\ runner = [phase |-> "idle"] /\ monitor = [phase |-> "idle"] /\ MoreIdle
    /\ fm = FmNew

FmSyms == {fm.mgr[i].symbol : i \in DOMAIN fm.mgr}

\* a call of place_all(legs)
FmPlaceAll ==
    /\ fm.phase = "new"
    /\ \E legs \in FmLegs : \E failAt \in 0..Len(legs) :
          LET r == place_all(legs, "open", failAt, fm.orders, fm.stale)
          IN  fm' = [fm EXCEPT !.phase = IF r.ok THEN "placed" ELSE "rejected",
                               !.mgr = r.mgr, !.orders = r.orders, !.stale = r.stale]
    /\ UNCHANGED <<lifeVars, rfq, imp, runner, monitor, moreVars>>

\* the manager after check(); timedOut: fill_timeout_seconds have passed
\* since the round started
FmChecked(polled, timedOut, okSet) ==
    LET r == check(fm.mgr, "open", polled, timedOut, okSet, fm.orders, fm.stale)
    IN  [fm EXCEPT !.mgr = r.mgr, !.orders = r.orders, !.stale = r.stale,
                   !.result = r.result, !.polledAll = (polled = FmSyms)]

\* a call of check() before the fill timeout
FmCheckEarly ==
    /\ fm.phase = "placed"
    /\ \E polled \in SUBSET FmSyms : fm' = FmChecked(polled, FALSE, {})
    /\ UNCHANGED <<lifeVars, rfq, imp, runner, monitor, moreVars>>

\* a call of check() after the fill timeout
FmCheckTimedOut ==
    /\ fm.phase = "placed"
    /\ \E polled \in SUBSET FmSyms, okSet \in SUBSET FmSyms : fm' = FmChecked(polled, TRUE, okSet)
    /\ UNCHANGED <<lifeVars, rfq, imp, runner, monitor, moreVars>>

\* the venue executes one lot of a live order
FmFill ==
    /\ \E s \in FmSyms :
          LET sl == <<"open", s>> IN
          /\ fm.orders[sl].live
          /\ fm.orders[sl].fill < fm.orders[sl].qty
          /\ fm' = [fm EXCEPT !.orders[sl] = [qty |-> fm.orders[sl].qty,
                                              fill |-> fm.orders[sl].fill + 1,
                                              live |-> fm.orders[sl].fill + 1 < fm.orders[sl].qty],
                              !.executed[s] = @ + 1,
                              !.polledAll = FALSE]
    /\ UNCHANGED <<lifeVars, rfq, imp, runner, monitor, moreVars>>

FmNext == FmPlaceAll \/ FmCheckEarly \/ FmCheckTimedOut \/ FmFill
FmSpec == FmInit /\ [][FmNext]_vars

\* time advances: a check() after the fill timeout keeps being made
FmFairSpec == FmInit /\ [][FmNext]_vars /\ WF_vars(FmCheckTimedOut)

\* ---------------------------------------------------------- StrategyRunner
\* One runner and the trades it owns.  A trade is named by the order of its
\* creation and is "none" until it is created; beyond that only its state is
\* kept.  runner.fired counts the calls of config.on_trade_closed per trade.
TradeIds == 1..MaxTrades
Terminal == {"CLOSED", "FAILED"}

\* LifecycleManager.get_trades_for_strategy / active_trades_for_strategy
all_trades(r) == {i \in TradeIds : r.trades[i] # "none"}
active_trades(r) == {i \in all_trades(r) : r.trades[i] \notin Terminal}

\* C11 mutant: the callback is fired without consulting _known_closed_ids
check_closed_trades_NoKnownSet(r) ==
    LET newly == {i \in all_trades(r) : r.trades[i] \in Terminal}
    IN  [r EXCEPT !.known_closed_ids = r.known_closed_ids \cup newly,
                  !.fired = [i \in TradeIds |-> r.fired[i] + (IF i \in newly THEN 1 ELSE 0)]]

\* StrategyRunner._check_closed_trades
check_closed_trades(r) ==
    LET newly == {i \in all_trades(r) : r.trades[i] \in Terminal /\ i \notin r.known_closed_ids}
    IN  [r EXCEPT !.known_closed_ids = r.known_closed_ids \cup newly,
                  !.fired = [i \in TradeIds |-> r.fired[i] + (IF i \in newly THEN 1 ELSE 0)]]

\* gate 3 of _should_open: the trades whose created_at falls on today's UTC date
today_count(r) == Cardinality({i \in all_trades(r) : r.created[i] = r.today})

\* C25 mutant: _should_open without gate 1 (max concurrent trades)
should_open_NoConcurrencyGate(r, in) ==
    IF ~in.cooldownOk THEN [ok |-> FALSE, gate |-> 2, r |-> r]
    ELSE IF r.max_trades_per_day > 0 /\ today_count(r) >= r.max_trades_per_day
         THEN [ok |-> FALSE, gate |-> 3,
               r |-> IF active_trades(r) = {} THEN [r EXCEPT !.enabled = FALSE] ELSE r]
    ELSE [ok |-> in.condOk, gate |-> IF in.condOk THEN 0 ELSE 4, r |-> r]

\* StrategyRunner._should_open.  in.cooldownOk: gate 2 passes; in.condOk: every
\* entry condition returns True.  gate: the gate that refused, 0 when all pass.
should_open(r, in) ==
    IF Cardinality(active_trades(r)) >= r.max_concurrent_trades
         THEN [ok |-> FALSE, gate |-> 1, r |-> r]
    ELSE IF ~in.cooldownOk THEN [ok |-> FALSE, gate |-> 2, r |-> r]
    ELSE IF r.max_trades_per_day > 0 /\ today_count(r) >= r.max_trades_per_day
         THEN [ok |-> FALSE, gate |-> 3,
               r |-> IF active_trades(r) = {} THEN [r EXCEPT !.enabled = FALSE] ELSE r]
    ELSE [ok |-> in.condOk, gate |-> IF in.condOk THEN 0 ELSE 4, r |-> r]

\* the states in which manager.open leaves a new trade (LifecycleManager.open
\* and the _open_* it routes to); "none": resolve_legs raised, no trade created
OpenOutcomes == {"none", "PENDING_OPEN", "OPENING", "OPEN", "FAILED"}

\* StrategyRunner._open_trade; manager.create stamps created_at with the clock
open_trade(r, in) ==
    IF all_trades(r) = TradeIds \/ in.after = "none" THEN r
    ELSE LET id == CHOOSE i \in TradeIds : r.trades[i] = "none"
                                 /\ \A j \in TradeIds : r.trades[j] = "none" => i <= j
         IN  [r EXCEPT !.trades[id] = in.after, !.created[id] = r.today]

\* StrategyRunner.tick.  in.due: check_interval_seconds have passed since the
\* last check.  last_gate records what the tick's _should_open answered
\* (5: the tick did not get to it).
runner_tick(r, in) ==
    IF ~r.enabled THEN [r EXCEPT !.last_gate = 5]
    ELSE LET r1 == check_closed_trades(r)
             so == should_open(r1, in)
             r2 == [so.r EXCEPT !.last_gate = so.gate]
         IN  IF ~in.due THEN [r1 EXCEPT !.last_gate = 5]
             ELSE IF so.ok THEN open_trade(r2, in) ELSE r2

\* the states in which manager.force_close leaves a trade
ForceCloseOutcomes(st) ==
    CASE st = "OPEN" -> {"PENDING_CLOSE"}
      [] st = "PENDING_CLOSE" -> {"PENDING_CLOSE"}
      [] st = "PENDING_OPEN" -> {"FAILED"}
      [] st = "OPENING" -> {"FAILED", "PENDING_CLOSE"}
      [] st = "CLOSING" -> {"PENDING_CLOSE"}
      [] OTHER -> {st}

\* the state changes LifecycleManager.tick makes to an active trade
TradeMoves ==
    {<<"OPENING", "OPEN">>, <<"OPENING", "FAILED">>, <<"OPENING", "PENDING_CLOSE">>,
     <<"OPEN", "PENDING_CLOSE">>, <<"PENDING_CLOSE", "CLOSING">>, <<"PENDING_CLOSE", "CLOSED">>,
     <<"CLOSING", "CLOSED">>, <<"CLOSING", "PENDING_CLOSE">>}

\* StrategyRunner.__init__, with max_trades_per_day unlimited (0, the default),
\* 1 or MaxTrades, and max_concurrent_trades 1 (the default) or MaxTrades.
\* today is the UTC date of the clock, created the date of each trade's
\* created_at; caller_off: disable() or stop() was called and enable() has
\* not been since.
RunnerNew(mtpd, mct) ==
    [phase |-> "run", enabled |-> TRUE, known_closed_ids |-> {},
     trades |-> [i \in TradeIds |-> "none"], fired |-> [i \in TradeIds |-> 0],
     max_trades_per_day |-> mtpd, max_concurrent_trades |-> mct,
     today |-> 0, created |-> [i \in TradeIds |-> 0], caller_off |-> FALSE, last_gate |-> 5]

RunnerInit ==
    /\ OneTrade /\ rfq = RfqIdle /\ imp = ImpIdle
    /\ fm = [phase |-> "idle"] /\ monitor = [phase |-> "idle"] /\ MoreIdle
    /\ \E mtpd \in {0, 1, MaxTrades}, mct \in {1, MaxTrades} : runner = RunnerNew(mtpd, mct)

\* the PositionMonitor calls runner.tick(snapshot)
RunnerTick ==
    /\ \E due \in BOOLEAN, cooldownOk \in BOOLEAN, condOk \in BOOLEAN, after \in OpenOutcomes :
          runner' = runner_tick(runner, [due |-> due, cooldownOk |-> cooldownOk,
                                         condOk |-> condOk, after |-> after])
    /\ UNCHANGED <<lifeVars, rfq, imp, fm, monitor, moreVars>>

\* StrategyRunner.enable
RunnerEnable ==
    /\ runner' = [runner EXCEPT !.enabled = TRUE, !.caller_off = FALSE]
    /\ UNCHANGED <<lifeVars, rfq, imp, fm, monitor, moreVars>>

\* StrategyRunner.disable
RunnerDisable ==
    /\ runner' = [runner EXCEPT !.enabled = FALSE, !.caller_off = TRUE]
    /\ UNCHANGED <<lifeVars, rfq, imp, fm, monitor, moreVars>>

\* StrategyRunner.stop: disable, then force_close every active trade
RunnerStop ==
    /\ \E out \in [TradeIds -> States \cup {"none"}] :
          /\ \A i \in TradeIds :
                out[i] \in (IF i \in active_trades(runner)
                            THEN ForceCloseOutcomes(runner.trades[i]) ELSE {runner.trades[i]})
          /\ runner' = [runner EXCEPT !.enabled = FALSE, !.caller_off = TRUE, !.trades = out]
    /\ UNCHANGED <<lifeVars, rfq, imp, fm, monitor, moreVars>>

\* LifecycleManager.tick or open moves one of the runner's trades
TradeMove ==
    /\ \E i \in active_trades(runner) : \E st \in States :
          /\ \/ <<runner.trades[i], st>> \in TradeMoves
             \/ runner.trades[i] = "PENDING_OPEN" /\ st \in OpenOutcomes \ {"none", "PENDING_OPEN"}
          /\ runner' = [runner EXCEPT !.trades[i] = st]
    /\ UNCHANGED <<lifeVars, rfq, imp, fm, monitor, moreVars>>

\* the clock passes midnight UTC
RunnerMidnight ==
    /\ runner.today < MaxDays
    /\ runner' = [runner EXCEPT !.today = @ + 1]
    /\ UNCHANGED <<lifeVars, rfq, imp, fm, monitor, moreVars>>

RunnerNext ==
    RunnerTick \/ RunnerEnable \/ RunnerDisable \/ RunnerStop \/ TradeMove \/ RunnerMidnight
RunnerSpec == RunnerInit /\ [][RunnerNext]_vars

\* the poller keeps ticking the runner: a tick that has something to do
\* whenever it comes is not missed for ever by enable/disable calls made
\* in between
RunnerFairSpec == RunnerInit /\ [][RunnerNext]_vars /\ SF_vars(RunnerTick)

\* --------------------------------------------------------- PositionMonitor
\* monitor.latest is PositionMonitor._latest (NoSnapshot until the first one),
\* monitor.callbacks is _callbacks; monitor.last describes the last iteration
\* of _poll_loop: whether a fetch failed in it, the calls of callbacks made in
\* it in their order (and the set of callbacks that were handed a snapshot),
\* the callbacks registered when it ran, and _latest before and after it.
Callbacks == {"manager.tick", "runner.tick"}

\* AccountManager.get_positions: the positions the venue reports, [] on failure
get_positions(ok, held) == IF ok THEN held ELSE {}

\* AccountManager.get_account_info: None on failure
get_account_info(ok, equity) == IF ok THEN [none |-> FALSE, equity |-> equity] ELSE [none |-> TRUE]

\* the value None of Optional[AccountSnapshot]
NoSnapshot == [none |-> TRUE]

\* PositionMonitor.snapshot: "acct = get_account_info() or {}", missing keys read as 0
snapshot(posOk, acctOk, held, equity) ==
    LET raw_positions == get_positions(posOk, held)
        acct == get_account_info(acctOk, equity)
    IN  [none |-> FALSE,
         equity |-> IF acct.none THEN 0 ELSE acct.equity,
         positions |-> raw_positions]

\* C27 mutant: the loop over the callbacks is left at the first one that raises
fire_callbacks_AbortOnRaise(cbs, snap, raises) ==
    LET bad == {i \in 1..Len(cbs) : i \in raises}
        stop == IF bad = {} THEN Len(cbs) ELSE CHOOSE i \in bad : \A j \in bad : i <= j
    IN  [i \in 1..stop |-> [cb |-> cbs[i], snap |-> snap, raised |-> i \in raises]]

\* the "for cb in self._callbacks" loop of _poll_loop: the calls it makes;
\* raises: the positions of the callbacks that raise an Exception
fire_callbacks(cbs, snap, raises) ==
    [i \in 1..Len(cbs) |-> [cb |-> cbs[i], snap |-> snap, raised |-> i \in raises]]

\* PositionMonitor.__init__
MonitorNew ==
    [phase |-> "run", running |-> FALSE, latest |-> NoSnapshot, callbacks |-> <<>>,
     last |-> [failed |-> FALSE, delivered |-> {}, calls |-> <<>>, registered |-> <<>>,
               before |-> NoSnapshot, after |-> NoSnapshot]]

MonitorInit ==
    /\ OneTrade /\ rfq = RfqIdle /\ imp = ImpIdle
    /\ fm = [phase |-> "idle"] /\ runner = [phase |-> "idle"] /\ MoreIdle
    /\ monitor = MonitorNew

\* PositionMonitor.start
MonitorStart ==
    /\ ~monitor.running
    /\ monitor' = [monitor EXCEPT !.running = TRUE]
    /\ UNCHANGED <<lifeVars, rfq, imp, fm, runner, moreVars>>

\* PositionMonitor.stop
MonitorStop ==
    /\ monitor.running
    /\ monitor' = [monitor EXCEPT !.running = FALSE]
    /\ UNCHANGED <<lifeVars, rfq, imp, fm, runner, moreVars>>

\* one iteration of PositionMonitor._poll_loop: snapshot, then every callback
MonitorPoll ==
    /\ monitor.running
    /\ \E posOk \in BOOLEAN, acctOk \in BOOLEAN :
       \E held \in (IF posOk THEN SUBSET Syms ELSE {{}}),
          equity \in (IF acctOk THEN 1..MaxEquity ELSE {1}) :
       \E raises \in SUBSET (1..Len(monitor.callbacks)) :
          LET snap == snapshot(posOk, acctOk, held, equity)
              calls == fire_callbacks(monitor.callbacks, snap, raises)
          IN  monitor' = [monitor EXCEPT !.latest = snap,
                             !.last = [failed |-> ~posOk \/ ~acctOk,
                                       delivered |-> {calls[i].cb : i \in 1..Len(calls)},
                                       calls |-> calls, registered |-> monitor.callbacks,
                                       before |-> monitor.latest, after |-> snap]]
    /\ UNCHANGED <<lifeVars, rfq, imp, fm, runner, moreVars>>

\* a manual call of PositionMonitor.snapshot()
MonitorSnapshot ==
    /\ \E posOk \in BOOLEAN, acctOk \in BOOLEAN :
       \E held \in (IF posOk THEN SUBSET Syms ELSE {{}}),
          equity \in (IF acctOk THEN 1..MaxEquity ELSE {1}) :
          monitor' = [monitor EXCEPT !.latest = snapshot(posOk, acctOk, held, equity)]
    /\ UNCHANGED <<lifeVars, rfq, imp, fm, runner, moreVars>>

\* PositionMonitor.on_update
MonitorOnUpdate ==
    /\ Len(monitor.callbacks) < MaxCallbacks
    /\ \E cb \in Callbacks : monitor' = [monitor EXCEPT !.callbacks = Append(@, cb)]
    /\ UNCHANGED <<lifeVars, rfq, imp, fm, runner, moreVars>>

MonitorNext ==
    MonitorStart \/ MonitorStop \/ MonitorPoll \/ MonitorSnapshot \/ MonitorOnUpdate
MonitorSpec == MonitorInit /\ [][MonitorNext]_vars

\* ------------------------------------------------------- execution routing
\* The router of LifecycleManager.open applied to one trade: its legs, its
\* configured mode, the mark of each symbol's orderbook and the symbols whose
\* orderbook can be fetched.
Marks == {-1, 0, 1, 2499, 2500, 12500, 24999}
RouteLegs == {<<TradeLeg(1, LegQty, BUY)>>,
              <<TradeLeg(1, LegQty, BUY), TradeLeg(2, LegQty, SELL)>>}
Modes == {"auto", "limit", "rfq", "smart"}

RouteInit ==
    /\ OneTrade /\ rfq = RfqIdle /\ imp = ImpIdle
    /\ fm = [phase |-> "idle"] /\ runner = [phase |-> "idle"] /\ monitor = [phase |-> "idle"]
    /\ share = [phase |-> "idle"] /\ thr = [phase |-> "idle"]
    /\ baseline = [phase |-> "idle"] /\ placing = [phase |-> "idle"] /\ smartx = [phase |-> "idle"] /\ sxcfg = [phase |-> "idle"] /\ exits = [phase |-> "idle"] /\ workers = [phase |-> "idle"] /\ rtry = [phase |-> "idle"]
    /\ \E legs \in RouteLegs, em \in Modes, marks \in [Syms -> Marks], avail \in SUBSET Syms :
          route = [phase |-> "new", legs |-> legs, execution_mode |-> em, marks |-> marks,
                   avail |-> avail, mode |-> "none"]

\* LifecycleManager.open up to the choice of the executor
RouteOpen ==
    /\ route.phase = "new"
    /\ route' = [route EXCEPT !.phase = "done",
                    !.mode = route_mode(route.execution_mode, route.legs,
                                        calculate_notional(route.legs, route.marks, route.avail))]
    /\ UNCHANGED <<lifeVars, rfq, imp, fm, runner, monitor, share, thr, baseline, placing, smartx, sxcfg, exits, workers, rtry>>

RouteSpec == RouteInit /\ [][RouteOpen]_vars

\* ------------------------------------------------------ pro-rated position
\* Two trades with a leg on the same symbol.  The venue keeps one position per
\* symbol: its qty is the net of what the two legs executed.  A share is kept
\* as the fraction num/den.
ShareLegs ==
    {[qty |-> q, filled_qty |-> f, side |-> sd] : q \in 1..LegQty, f \in 0..LegQty, sd \in {BUY, SELL}}

Signed(leg) == IF leg.side = BUY THEN leg.filled_qty ELSE 0 - leg.filled_qty

\* the qty of the venue's position in the symbol
PositionQty(a, b) ==
    IF Signed(a) + Signed(b) >= 0 THEN Signed(a) + Signed(b) ELSE 0 - (Signed(a) + Signed(b))

\* TradeLifecycle._our_share
our_share(leg, pos_qty) ==
    IF pos_qty = 0 THEN [num |-> 0, den |-> 1]
    ELSE LET our_qty == IF leg.filled_qty > 0 THEN leg.filled_qty ELSE leg.qty
         IN  IF our_qty >= pos_qty THEN [num |-> 1, den |-> 1]
             ELSE [num |-> our_qty, den |-> pos_qty]

ShareInit ==
    /\ OneTrade /\ rfq = RfqIdle /\ imp = ImpIdle
    /\ fm = [phase |-> "idle"] /\ runner = [phase |-> "idle"] /\ monitor = [phase |-> "idle"]
    /\ route = [phase |-> "idle"] /\ thr = [phase |-> "idle"]
    /\ baseline = [phase |-> "idle"] /\ placing = [phase |-> "idle"] /\ smartx = [phase |-> "idle"] /\ sxcfg = [phase |-> "idle"] /\ exits = [phase |-> "idle"] /\ workers = [phase |-> "idle"] /\ rtry = [phase |-> "idle"]
    /\ \E a \in ShareLegs, b \in ShareLegs :
          /\ a.filled_qty <= a.qty /\ b.filled_qty <= b.qty
          /\ share = [phase |-> "new", a |-> a, b |-> b, pos_qty |-> PositionQty(a, b),
                      of_a |-> [num |-> 0, den |-> 1], of_b |-> [num |-> 0, den |-> 1]]

\* structure_pnl / structure_greeks of both trades on one snapshot: the share
\* each takes of the symbol's position (none when the position is absent)
SharePnl ==
    /\ share.phase = "new"
    /\ share' = [share EXCEPT !.phase = "done",
                    !.of_a = our_share(share.a, share.pos_qty),
                    !.of_b = our_share(share.b, share.pos_qty)]
    /\ UNCHANGED <<lifeVars, rfq, imp, fm, runner, monitor, route, thr, baseline, placing, smartx, sxcfg, exits, workers, rtry>>

ShareSpec == ShareInit /\ [][SharePnl]_vars

\* ------------------------------------------------------ threads at shutdown
\* The PositionMonitor thread runs manager.tick, which handles the active
\* trades one after the other; the main thread runs shutdown(), whose
\* runner.stop() force-closes the trades that were active when it started and
\* which stops the monitor afterwards.  thr.poller and thr.main are 0 outside
\* such a call and i while the thread is inside the call for trade i;
\* thr.trades are the trades' states, thr.running is PositionMonitor._running.
ActiveAtShutdown == {"OPENING", "OPEN", "PENDING_CLOSE", "CLOSING"}

ThrInit ==
    /\ OneTrade /\ rfq = RfqIdle /\ imp = ImpIdle
    /\ fm = [phase |-> "idle"] /\ runner = [phase |-> "idle"] /\ monitor = [phase |-> "idle"]
    /\ route = [phase |-> "idle"] /\ share = [phase |-> "idle"]
    /\ baseline = [phase |-> "idle"] /\ placing = [phase |-> "idle"] /\ smartx = [phase |-> "idle"] /\ sxcfg = [phase |-> "idle"] /\ exits = [phase |-> "idle"] /\ workers = [phase |-> "idle"] /\ rtry = [phase |-> "idle"]
    /\ \E tr \in [TradeIds -> ActiveAtShutdown] :
          thr = [phase |-> "run", running |-> TRUE, trades |-> tr, poller |-> 0, main |-> 0,
                 polling |-> FALSE, pollerExited |-> FALSE, stage |-> "loop", todo |-> {}]

ThrFrame == UNCHANGED <<lifeVars, rfq, imp, fm, runner, monitor, route, share, baseline, placing, smartx, sxcfg, exits, workers, rtry>>

\* the next trade after i that manager.tick handles (0: none is left)
NextActive(tr, i) ==
    IF \E j \in TradeIds : j > i /\ tr[j] \notin Terminal
    THEN CHOOSE j \in TradeIds : /\ j > i /\ tr[j] \notin Terminal
                                 /\ \A k \in TradeIds : (k > i /\ tr[k] \notin Terminal) => j <= k
    ELSE 0

\* the next trade after i of the list runner.stop() took (0: none is left)
NextTodo(todo, i) ==
    IF \E j \in todo : j > i
    THEN CHOOSE j \in todo : j > i /\ \A k \in todo : k > i => j <= k
    ELSE 0

\* _poll_loop: an iteration starts and manager.tick enters its first trade
PollerBegin ==
    /\ thr.phase = "run" /\ thr.running /\ ~thr.polling /\ ~thr.pollerExited
    /\ thr' = [thr EXCEPT !.polling = TRUE, !.poller = NextActive(thr.trades, 0)]
    /\ ThrFrame

\* manager.tick finishes the trade it is in, moving it or not, and enters the
\* next active one
PollerTickTrade ==
    /\ thr.phase = "run" /\ thr.poller \in TradeIds
    /\ \E st \in States :
          /\ st = thr.trades[thr.poller] \/ <<thr.trades[thr.poller], st>> \in TradeMoves
          /\ thr' = [thr EXCEPT !.trades[thr.poller] = st,
                                 !.poller = NextActive(thr.trades, thr.poller)]
    /\ ThrFrame

\* _poll_loop: the callbacks are through; the loop sleeps, or returns when
\* _running was cleared
PollerEnd ==
    /\ thr.phase = "run" /\ thr.polling /\ thr.poller = 0
    /\ thr' = [thr EXCEPT !.polling = FALSE, !.pollerExited = ~thr.running]
    /\ ThrFrame

\* _poll_loop returns from its sleep because _running was cleared
PollerExit ==
    /\ thr.phase = "run" /\ ~thr.running /\ ~thr.polling /\ ~thr.pollerExited
    /\ thr' = [thr EXCEPT !.pollerExited = TRUE]
    /\ ThrFrame

\* main.py shutdown(), from the signal handler or the main loop: runner.stop()
\* takes the list of active trades and enters force_close for the first
MainShutdown ==
    /\ thr.phase = "run" /\ thr.stage = "loop"
    /\ LET active == {i \in TradeIds : thr.trades[i] \notin Terminal}
       IN  thr' = [thr EXCEPT !.stage = "stop", !.todo = active, !.main = NextTodo(active, 0)]
    /\ ThrFrame

\* runner.stop(): force_close of the trade it is in returns, the next begins
MainForceClose ==
    /\ thr.phase = "run" /\ thr.stage = "stop" /\ thr.main \in TradeIds
    /\ \E st \in ForceCloseOutcomes(thr.trades[thr.main]) :
          thr' = [thr EXCEPT !.trades[thr.main] = st, !.main = NextTodo(thr.todo, thr.main)]
    /\ ThrFrame

\* shutdown(), after the runners: position_monitor.stop() clears _running and
\* joins the thread with a timeout
MainStopMonitor ==
    /\ thr.phase = "run" /\ thr.stage = "stop" /\ thr.main = 0
    /\ thr' = [thr EXCEPT !.stage = "exit", !.running = FALSE]
    /\ ThrFrame

ThrNext ==
    \/ PollerBegin \/ PollerTickTrade \/ PollerEnd \/ PollerExit
    \/ MainShutdown \/ MainForceClose \/ MainStopMonitor

ThrSpec == ThrInit /\ [][ThrNext]_vars

\* ------------------------------------------------------------------ claims
LegalEdges ==
    {<<"PENDING_OPEN", "OPENING">>, <<"OPENING", "OPEN">>, <<"OPEN", "PENDING_CLOSE">>,
     <<"PENDING_CLOSE", "CLOSING">>, <<"CLOSING", "CLOSED">>, <<"CLOSING", "PENDING_CLOSE">>,
     <<"OPENING", "PENDING_CLOSE">>} \cup {<<s, "FAILED">> : s \in States}

\* C1: every change of the trade's state made by a call is an edge of the
\* legal graph, and the trade never returns to PENDING_OPEN.
C1_LegalTransitions ==
    \A i \in 1..(Len(path) - 1) :
        path[i] # path[i + 1] => <<path[i], path[i + 1]>> \in LegalEdges

\* the step is a call (not a venue fill) that takes the trade from
\* PENDING_CLOSE into CLOSING
EntersClosing ==
    /\ state = "PENDING_CLOSE"
    /\ <<tradeVars, stale, obsVars>>' # <<tradeVars, stale, obsVars>>
    /\ Len(path') >= 2 /\ path'[1] = "PENDING_CLOSE" /\ path'[2] = "CLOSING"

HasLeg(legs, sym) == \E i \in DOMAIN legs : legs[i].symbol = sym
LegOf(legs, sym) == legs[CHOOSE i \in DOMAIN legs : legs[i].symbol = sym]

TotalClosed(sym) ==
    closedEarlier[sym] + (IF state \in {"CLOSING", "CLOSED"} THEN ClosedIn(close_legs, sym) ELSE 0)

\* C3: in every close attempt the close leg of a symbol has the opened
\* quantity minus the total recorded as filled by all earlier close attempts
\* (no close leg when nothing is left), and the total closed for a symbol
\* never exceeds what was opened.
C3_CloseQtyCumulative ==
    /\ state = "CLOSING" =>
          \A i \in DOMAIN open_legs :
             LET sym == open_legs[i].symbol
                 left == FilledOrQty(open_legs[i]) - closedEarlier[sym]
             IN  IF left > 0
                 THEN HasLeg(close_legs, sym) /\ LegOf(close_legs, sym).qty = left
                 ELSE ~HasLeg(close_legs, sym)
    /\ \A i \in DOMAIN open_legs :
          TotalClosed(open_legs[i].symbol) <= FilledOrQty(open_legs[i])

\* the step is a tick in which _check_open_fills gives up on an open attempt
\* that has recorded fills: OPENING -> OPEN -> PENDING_CLOSE
UnwindsOpen ==
    /\ state = "OPENING"
    /\ path' = <<"OPENING", "OPEN", "PENDING_CLOSE">>
    /\ Tick

C5_ClosedMeansFlat ==
    state = "CLOSED" =>
        /\ \A i \in DOMAIN close_legs : is_filled(close_legs[i])
        /\ \A i \in DOMAIN open_legs :
              TotalClosed(open_legs[i].symbol) = FilledOrQty(open_legs[i])

\* C6: a trade in OPEN has every open leg fully filled.
C6_OpenMeansFilled ==
    state = "OPEN" => \A i \in DOMAIN open_legs : is_filled(open_legs[i])

\* what cancel() knows of the open fills: the fill manager's record when
\* there is one, the legs' otherwise
KnownOpenLegs ==
    IF open_fill_mgr # NoMgr THEN SyncLegs(open_legs, open_fill_mgr) ELSE open_legs

\* C7: cancel() in a state other than PENDING_OPEN and OPENING returns False
\* and changes nothing; in those two states it leaves no open order live,
\* sends the trade to PENDING_CLOSE when some open leg has a fill, even a
\* partial one, and to FAILED only when no leg has any fill.
C7_Cancel ==
    LET r == cancel(Cur)
        anyFill == \E i \in DOMAIN KnownOpenLegs : KnownOpenLegs[i].filled_qty > 0
    IN  IF state \notin {"PENDING_OPEN", "OPENING"}
        THEN r = [Cur EXCEPT !.ret = "False"]
        ELSE /\ r.ret = "True"
             /\ \A sym \in Syms : ~r.orders[<<"open", sym>>].live
             /\ anyFill => r.state = "PENDING_CLOSE"
             /\ r.state = "FAILED" => ~anyFill

\* C8: every trade that enters PENDING_CLOSE eventually reaches CLOSED or
\* FAILED when ticks keep coming.
C8_CloseTerminates ==
    [](state = "PENDING_CLOSE" => <>(state \in {"CLOSED", "FAILED"}))

\* C9: when the baseline is known, the quote that execute() accepts has an
\* improvement of at least min_improvement_pct, also when it is a next-best
\* quote accepted after the acceptance of the best one failed.
C9_AcceptedQuoteMeetsGate ==
    (rfq.phase = "done" /\ rfq.success /\ rfq.baseline_known) =>
        ~PctLess(rfq.improvement_pct, rfq.min_improvement_pct)

\* C10: for a non-zero baseline b and a quote cost q the result is
\* (b - q) / |b| * 100, positive when q < b and negative when q > b.
C10_ImprovementFormula ==
    (imp.phase = "done" /\ imp.orderbook_cost # 0) =>
        LET b == imp.orderbook_cost
            q == imp.quote_cost
            r == imp.result
        IN  /\ r[1] * Abs(b) = (b - q) * 100 * r[2]
            /\ q < b => r[1] > 0
            /\ q > b => r[1] < 0

\* C13: the filled quantity tracked for a leg is cumulative over every order
\* placed for it (the original and each requote): once check() has polled
\* every leg, a leg whose orders were executed for its whole quantity is
\* is_filled, and when that is so for every leg check() returned "filled".
C13_FillsAreCumulative ==
    (fm.phase = "placed" /\ fm.polledAll) =>
        /\ \A i \in DOMAIN fm.mgr :
              fm.executed[fm.mgr[i].symbol] >= fm.mgr[i].qty => is_filled(fm.mgr[i])
        /\ (\A i \in DOMAIN fm.mgr : fm.executed[fm.mgr[i].symbol] >= fm.mgr[i].qty)
              => fm.result = "filled"

\* C14: with a leg that never fills, check() called again and again as time
\* advances eventually returns "failed", whatever the orderbook and the order
\* placement do during requotes.
C14_RequoteTerminates ==
    (fm.phase = "placed") ~>
        (fm.result = "failed" \/ \A i \in DOMAIN fm.mgr : fm.executed[fm.mgr[i].symbol] > 0)

C16_OpenedAtIffWasOpen == opened_at <=> wasOpen

\* an unwound trade: OPEN was only passed through, opened_at is stamped
C16_Witness == unwound /\ wasOpen /\ opened_at /\ state = "CLOSING"

\* C17: closed_at is set exactly when the trade's state is CLOSED.
C17_ClosedAtIffClosed == closed_at <=> (state = "CLOSED")

\* a trade closed by the close fill manager reporting "filled"
C17_Witness == path = <<"CLOSING", "CLOSED">> /\ state = "CLOSED" /\ closed_at

CallInputs ==
    {[notional |-> n, rfqOk |-> b, smartOk |-> b,
      smartFill |-> [i \in LegIdx |-> LegQty], failAt |-> f,
      polled |-> IF b THEN Syms ELSE {}, timedOut |-> b, okSet |-> Syms, exit |-> b] :
        n \in NotionalSamples, b \in BOOLEAN, f \in 0..Len(open_legs)}

\* C19: CLOSED and FAILED are absorbing: there, tick, open, close,
\* force_close and cancel leave the state, the legs, the timestamps, the
\* error, the fill managers and every order as they are, and open, close,
\* force_close and cancel return False.
C19_TerminalAbsorbing ==
    state \in {"CLOSED", "FAILED"} =>
        /\ \A in \in CallInputs :
              /\ open(Cur, in) = [Cur EXCEPT !.ret = "False"]
              /\ close(Cur, in) = [Cur EXCEPT !.ret = "False"]
              /\ tick(Cur, in) = Cur
        /\ force_close(Cur) = [Cur EXCEPT !.ret = "False"]
        /\ cancel(Cur) = [Cur EXCEPT !.ret = "False"]

\* a failed trade whose open order is still live at the venue, and a closed one
C19_Witness ==
    \/ state = "FAILED" /\ \E sl \in Slots : orders[sl].live
    \/ state = "CLOSED" /\ close_legs # <<>>

\* C11: whatever the runner ticks, the trade state changes and the
\* enable/disable/stop calls, on_trade_closed is invoked at most once for a
\* trade id, and never for a trade whose state is not CLOSED or FAILED.
C11_CallbackAtMostOnce ==
    \A i \in TradeIds :
        /\ runner.fired[i] <= 1
        /\ runner.fired[i] > 0 => runner.trades[i] \in Terminal

\* both trades ended, one CLOSED and one FAILED, and the callback fired for each
C11_Witness ==
    /\ \A i \in TradeIds : runner.fired[i] = 1
    /\ {runner.trades[i] : i \in TradeIds} = Terminal

\* C12: every trade of the runner that reaches CLOSED or FAILED eventually
\* has on_trade_closed invoked for it as the poller keeps ticking the runner,
\* also when it reaches that state after the runner was disabled or stopped.
C12_CallbackEventuallyFires ==
    \A i \in TradeIds : (runner.trades[i] \in Terminal) ~> (runner.fired[i] = 1)

\* C20: when fetching the positions or the account fails in a poll iteration,
\* no callback is handed a snapshot in that iteration and latest keeps the
\* value it had before it.
C20_FailedFetchKeepsLatest ==
    monitor.last.failed =>
        /\ monitor.last.delivered = {}
        /\ monitor.last.after = monitor.last.before

\* C30: for each leg of a LimitFillManager, the quantity executed at the venue
\* over all orders placed for the leg (the original and every requote) never
\* exceeds the leg's qty.
C30_NoOverfillAcrossRequotes ==
    fm.phase = "placed" =>
        \A i \in DOMAIN fm.mgr : fm.executed[fm.mgr[i].symbol] <= fm.mgr[i].qty

\* C29: a trade that moved to FAILED without ever being OPEN has no executed
\* quantity on the orders placed for its open legs.
C29_FailedMeansNothingExecuted ==
    (state = "FAILED" /\ ~wasOpen) => \A s \in Syms : orders[<<"open", s>>].fill = 0

\* the inputs of one StrategyRunner.tick
TickInputs ==
    [due : BOOLEAN, cooldownOk : BOOLEAN, condOk : BOOLEAN, after : OpenOutcomes]

\* C25: the number of active trades of a strategy never exceeds
\* max_concurrent_trades, and a tick made while the active count is at the
\* limit creates no trade.
C25_ConcurrencyLimit ==
    runner.phase = "run" =>
        /\ Cardinality(active_trades(runner)) <= runner.max_concurrent_trades
        /\ Cardinality(active_trades(runner)) >= runner.max_concurrent_trades =>
               \A in \in TickInputs : all_trades(runner_tick(runner, in)) = all_trades(runner)

\* a tick was refused by gate 1 with the active count at the limit while an
\* id was still free
C25_Witness ==
    /\ runner.phase = "run" /\ runner.last_gate = 1 /\ runner.enabled
    /\ Cardinality(active_trades(runner)) = runner.max_concurrent_trades
    /\ all_trades(runner) # TradeIds

\* C26: on a day on which fewer than max_trades_per_day trades were created,
\* a runner that its caller has not disabled or stopped opens a trade on a
\* tick whose other gates pass, whatever happened on earlier days.
C26_NextDayOpensAgain ==
    (/\ runner.phase = "run" /\ ~runner.caller_off
     /\ runner.max_trades_per_day > 0 /\ today_count(runner) < runner.max_trades_per_day
     /\ Cardinality(active_trades(runner)) < runner.max_concurrent_trades
     /\ all_trades(runner) # TradeIds)
    => all_trades(runner_tick(runner, [due |-> TRUE, cooldownOk |-> TRUE, condOk |-> TRUE,
                                       after |-> "OPENING"])) # all_trades(runner)

\* C27: a poll iteration calls every registered callback exactly once, in the
\* order of registration and each with the snapshot the iteration produced,
\* also when callbacks before it raised.
C27_EveryCallbackOnceInOrder ==
    monitor.phase = "run" =>
        /\ Len(monitor.last.calls) = Len(monitor.last.registered)
        /\ \A i \in 1..Len(monitor.last.calls) :
              /\ monitor.last.calls[i].cb = monitor.last.registered[i]
              /\ monitor.last.calls[i].snap = monitor.last.after

\* an iteration with two callbacks registered in which the first one raised
C27_Witness ==
    /\ monitor.phase = "run" /\ Len(monitor.last.calls) = 2
    /\ monitor.last.calls[1].raised
    /\ monitor.last.calls[1].cb # monitor.last.calls[2].cb

\* the mark of a symbol as the router reads it: 0 when the orderbook is
\* missing or the mark is not positive
UsableMark(sym) ==
    IF sym \in route.avail /\ route.marks[sym] > 0 THEN route.marks[sym] ELSE 0

C28_SharesSumToAtMostOne ==
    (share.phase = "done" /\ share.a.filled_qty > 0 /\ share.b.filled_qty > 0) =>
        share.of_a.num * share.of_b.den + share.of_b.num * share.of_a.den
            <= share.of_a.den * share.of_b.den

\* the results of open, close and tick called with input in in the current state
CallResults(in) == {open(Cur, in), close(Cur, in), tick(Cur, in)}

\* inputs with which every branch taken outside the RFQ paths is taken: each
\* answer of the venue either way, placements that succeed or fail at once
ModeInputs == {in \in CallInputs : in.notional = RfqNotionalThreshold /\ in.failAt <= 1}

\* C22: with rfq_fallback configured, a call whose RFQ fails leaves the trade
\* in the fallback mode, and once the mode is not rfq no call of open, close,
\* tick, force_close or cancel invokes the RFQ executor or brings the mode
\* back: after a fallback the RFQ executor is not invoked again.
C22_FallbackEndsRfq ==
    /\ (rfq_fallback # "none" /\ execution_mode \in {"rfq", "auto"}) =>
          \A in \in CallInputs : \A r \in CallResults(in) :
              /\ r.rfq_calls <= 1
              /\ (r.rfq_calls = 1 /\ ~in.rfqOk) =>
                    (r.execution_mode = rfq_fallback /\ r.execution_mode # "rfq")
    /\ execution_mode \notin {"rfq", "auto"} =>
          /\ \A in \in ModeInputs : \A r \in CallResults(in) :
                r.rfq_calls = 0 /\ r.execution_mode = execution_mode
          /\ \A r \in {force_close(Cur), cancel(Cur)} :
                r.rfq_calls = 0 /\ r.execution_mode = execution_mode

\* a trade opened by RFQ (no open order was placed) whose RFQ close failed
\* and that is now closing by limit orders
C22_Witness ==
    /\ rfq_fallback = "limit" /\ execution_mode = "limit" /\ state = "CLOSING"
    /\ wasOpen /\ \A s \in Syms : orders[<<"open", s>>] = NoOrder

\* C23: an execute call that created its RFQ and returns success = false has
\* called cancel_rfq, whether it ended by timeout, without a valid quote, with
\* the gate never passed, with every acceptance refused or by an exception;
\* a call that returns success = true accepted exactly one quote and did not
\* call cancel_rfq.
C23_CancelUnlessAccepted ==
    rfq.phase = "done" =>
        /\ (rfq.created /\ ~rfq.success) => (rfq.cancelled /\ rfq.accepts = 0)
        /\ rfq.success => (rfq.created /\ rfq.accepts = 1 /\ rfq.acceptedIdx > 0 /\ ~rfq.cancelled)

\* a call that saw quotes in every poll round, had none accepted and returned
C23_Witness ==
    /\ rfq.phase = "done" /\ rfq.created /\ ~rfq.success /\ rfq.cancelled
    /\ rfq.polls = MaxPolls /\ rfq.valid_quotes # <<>> /\ ~rfq.raised

\* C21: the poller thread in manager.tick and the main thread in the
\* force_close of runner.stop() are never inside a call on the same trade at
\* the same time.
C21_OneCallPerTrade ==
    thr.phase = "run" => ~(thr.poller \in TradeIds /\ thr.poller = thr.main)

\* C31: force_close of a trade in its first close attempt cancels the
\* outstanding close orders and returns the trade to PENDING_CLOSE, and the
\* close legs the next tick rebuilds have, per leg, the attempt's quantity
\* minus what the venue executed on the cancelled close order (no leg when
\* nothing is left).
C31_ForceCloseRebuildsRemainder ==
    (state = "CLOSING" /\ \A s \in Syms : closedEarlier[s] = 0) =>
        LET t1 == force_close(Cur)
        IN  /\ t1.state = "PENDING_CLOSE"
            /\ \A s \in Syms : ~t1.orders[<<"close", s>>].live
            /\ \A in \in {x \in CallInputs : x.failAt = 0 /\ ~x.rfqOk} :
                  LET t2 == tick(t1, in)
                  IN  \A i \in DOMAIN close_legs :
                         LET sym == close_legs[i].symbol
                             left == close_legs[i].qty - t1.orders[<<"close", sym>>].fill
                         IN  IF left > 0
                             THEN HasLeg(t2.close_legs, sym) /\ LegOf(t2.close_legs, sym).qty = left
                             ELSE ~HasLeg(t2.close_legs, sym)

\* C32: the tick of a trade in PENDING_CLOSE closes it through the executor
\* of its execution mode (close_via lists the executors the call went
\* through): limit through the limit fill manager, smart through the smart
\* executor, rfq through the RFQ executor, and after a failed RFQ close with
\* rfq_fallback = smart through the smart executor.
C32_CloseByMode ==
    state = "PENDING_CLOSE" =>
        \A in \in {x \in CallInputs : x.failAt = 0} :
            LET via == tick(Cur, in).close_via
            IN  /\ execution_mode \in {"limit", "smart"} => via = <<execution_mode>>
                /\ (execution_mode = "rfq" /\ in.rfqOk) => via = <<"rfq">>
                /\ (execution_mode = "rfq" /\ ~in.rfqOk /\ rfq_fallback # "none")
                       => via = <<"rfq", rfq_fallback>>

\* ---------------------------------------------------------------------------
\* RFQExecutor.get_orderbook_cost applied to one structure, one orderbook per
\* symbol and one taker action. A book side is the list of its price levels,
\* best first; only the best level is read.
MaxPx == 2
BookSides == {<<>>} \cup {<<p>> : p \in 1..MaxPx}
Books == [Syms -> [bids : BookSides, asks : BookSides]]
BaseLegs == {<<TradeLeg(1, LegQty, BUY)>>,
             <<TradeLeg(1, LegQty, SELL)>>,
             <<TradeLeg(1, LegQty, BUY), TradeLeg(2, LegQty, SELL)>>,
             <<TradeLeg(1, LegQty, BUY), TradeLeg(2, LegQty, BUY)>>}
Unknown == [known |-> FALSE, cost |-> 0]

\* get_orderbook_cost(legs): the loop over the legs, from leg i on
RECURSIVE orderbook_cost_from(_, _, _, _)
orderbook_cost_from(legs, book, i, total) ==
    IF i > Len(legs) THEN [known |-> TRUE, cost |-> total]
    ELSE LET leg == legs[i]
             ob == book[leg.symbol]
         IN  IF leg.side = BUY
             THEN IF ob.asks = <<>> THEN Unknown
                  ELSE orderbook_cost_from(legs, book, i + 1, total + ob.asks[1] * leg.qty)
             ELSE IF ob.bids = <<>> THEN Unknown
                  ELSE orderbook_cost_from(legs, book, i + 1, total - ob.bids[1] * leg.qty)

get_orderbook_cost(legs, book) == orderbook_cost_from(legs, book, 1, 0)

BaseInit ==
    /\ OneTrade /\ rfq = RfqIdle /\ imp = ImpIdle
    /\ fm = [phase |-> "idle"] /\ runner = [phase |-> "idle"] /\ monitor = [phase |-> "idle"] /\ route = [phase |-> "idle"] /\ share = [phase |-> "idle"] /\ thr = [phase |-> "idle"] /\ placing = [phase |-> "idle"] /\ smartx = [phase |-> "idle"] /\ sxcfg = [phase |-> "idle"] /\ exits = [phase |-> "idle"] /\ workers = [phase |-> "idle"] /\ rtry = [phase |-> "idle"]
    /\ \E legs \in BaseLegs, book \in Books, action \in {"buy", "sell"} :
          baseline = [phase |-> "ready", legs |-> legs, book |-> book, action |-> action,
                      orderbook_cost |-> Unknown]

\* execute(legs, action), step 1
BaseExecute ==
    /\ baseline.phase = "ready"
    /\ baseline' = [baseline EXCEPT !.phase = "done",
                                    !.orderbook_cost = get_orderbook_cost(baseline.legs, baseline.book)]
    /\ UNCHANGED <<lifeVars, rfq, imp, fm, runner, monitor, route, share, thr, placing, smartx, sxcfg, exits, workers, rtry>>

BaseSpec == BaseInit /\ [][BaseExecute]_vars

\* The book cost of the trade that the action takes: a leg is bought when its
\* side and the action agree on buying.
RECURSIVE TakerCostFrom(_, _, _, _, _)
TakerCostFrom(legs, book, action, i, total) ==
    IF i > Len(legs) THEN [known |-> TRUE, cost |-> total]
    ELSE LET leg == legs[i]
             ob == book[leg.symbol]
             bought == (leg.side = BUY) <=> (action = "buy")
         IN  IF bought
             THEN IF ob.asks = <<>> THEN Unknown
                  ELSE TakerCostFrom(legs, book, action, i + 1, total + ob.asks[1] * leg.qty)
             ELSE IF ob.bids = <<>> THEN Unknown
                  ELSE TakerCostFrom(legs, book, action, i + 1, total - ob.bids[1] * leg.qty)

\* C33: the orderbook baseline that execute() uses is the book cost of the
\* trade the taker action makes: +best ask * qty for every leg effectively
\* bought (buy leg under action buy, sell leg under action sell), -best bid *
\* qty for every other leg, and unknown when a needed book side is missing.
C33_BaselineFollowsAction ==
    baseline.phase = "done" =>
        baseline.orderbook_cost = TakerCostFrom(baseline.legs, baseline.book, baseline.action, 1, 0)

\* ---------------------------------------------------------------------------
\* LimitFillManager.place_all applied to one list of legs, one orderbook per
\* symbol and the set of legs whose order the exchange rejects. Prices are in
\* units of 0.01, the quantum of round(x, 2).
aggressive_buffer_pct == 2
NoPrice == [known |-> FALSE, price |-> 0]

\* round(num / den, 2) in units of 0.01
RoundDiv(num, den) == (2 * num + den) \div (2 * den)

\* An empty side read as a price of zero.
get_aggressive_price_ZeroForEmpty(ob, side) ==
    IF side = 1
    THEN [known |-> TRUE,
          price |-> IF ob.asks = <<>> THEN 0
                    ELSE RoundDiv(ob.asks[1] * (100 + aggressive_buffer_pct), 100)]
    ELSE [known |-> TRUE,
          price |-> IF ob.bids = <<>> THEN 0
                    ELSE RoundDiv(ob.bids[1] * 100, 100 + aggressive_buffer_pct)]

\* _get_aggressive_price(symbol, side) with the orderbook ob of the symbol
get_aggressive_price(ob, side) ==
    IF side = 1 /\ ob.asks # <<>>
    THEN [known |-> TRUE, price |-> RoundDiv(ob.asks[1] * (100 + aggressive_buffer_pct), 100)]
    ELSE IF side = 2 /\ ob.bids # <<>>
    THEN [known |-> TRUE, price |-> RoundDiv(ob.bids[1] * 100, 100 + aggressive_buffer_pct)]
    ELSE NoPrice

\* cancel_all() inside place_all: a cancel for every leg state held, none of
\* which is filled
cancel_placed(placed) == [i \in DOMAIN placed |-> placed[i].leg]

\* place_all(legs): the loop from leg i on; placed holds the _LegFillState
\* entries appended so far, asked the legs a price was asked for
RECURSIVE place_all_from(_, _, _, _, _)
place_all_from(legs, book, rejected, i, placed) ==
    IF i > Len(legs)
    THEN [ok |-> TRUE, placed |-> placed, cancels |-> <<>>, asked |-> i - 1, sent |-> {}]
    ELSE LET leg == legs[i]
             px == get_aggressive_price(book[leg.symbol], leg.side)
         IN  IF ~px.known
             THEN [ok |-> FALSE, placed |-> placed, cancels |-> cancel_placed(placed),
                   asked |-> i, sent |-> {}]
             ELSE IF i \in rejected
             THEN [ok |-> FALSE, placed |-> placed, cancels |-> cancel_placed(placed),
                   asked |-> i, sent |-> {px.price}]
             ELSE place_all_from(legs, book, rejected, i + 1,
                                 Append(placed, [leg |-> i, price |-> px.price]))

PlaceInit ==
    /\ OneTrade /\ rfq = RfqIdle /\ imp = ImpIdle
    /\ fm = [phase |-> "idle"] /\ runner = [phase |-> "idle"] /\ monitor = [phase |-> "idle"] /\ route = [phase |-> "idle"] /\ share = [phase |-> "idle"] /\ thr = [phase |-> "idle"] /\ baseline = [phase |-> "idle"] /\ smartx = [phase |-> "idle"] /\ sxcfg = [phase |-> "idle"] /\ exits = [phase |-> "idle"] /\ workers = [phase |-> "idle"] /\ rtry = [phase |-> "idle"]
    /\ \E legs \in BaseLegs, book \in Books, rejected \in SUBSET (1..2) :
          placing = [phase |-> "ready", legs |-> legs, book |-> book, rejected |-> rejected,
                     result |-> [ok |-> FALSE, placed |-> <<>>, cancels |-> <<>>,
                                 asked |-> 0, sent |-> {}]]

PlaceAll ==
    /\ placing.phase = "ready"
    /\ placing' = [placing EXCEPT !.phase = "done",
                                  !.result = place_all_from(placing.legs, placing.book,
                                                            placing.rejected, 1, <<>>)]
    /\ UNCHANGED <<lifeVars, rfq, imp, fm, runner, monitor, route, share, thr, baseline, smartx, sxcfg, exits, workers, rtry>>

PlaceSpec == PlaceInit /\ [][PlaceAll]_vars

\* leg i of the call cannot be priced: the side of the book it needs is empty
Unpriceable(i) ==
    LET leg == placing.legs[i]
        ob == placing.book[leg.symbol]
    IN  IF leg.side = BUY THEN ob.asks = <<>> ELSE ob.bids = <<>>

FailingLegs == {i \in DOMAIN placing.legs : Unpriceable(i) \/ i \in placing.rejected}

\* C34: place_all fails exactly when some leg cannot be priced or is rejected,
\* and it fails at the first such leg: the orders placed are those of the
\* legs before it, a cancel has been issued for each of them, no later leg is
\* priced or ordered; and no order, placed or rejected, carries a price of
\* zero or was priced from an empty book side.
C34_PlaceAllFailsFast ==
    placing.phase = "done" =>
        LET r == placing.result
        IN  /\ r.ok <=> FailingLegs = {}
            /\ r.ok => /\ [i \in DOMAIN r.placed |-> r.placed[i].leg] = [i \in DOMAIN placing.legs |-> i]
                       /\ r.cancels = <<>>
            /\ ~r.ok =>
                  LET k == CHOOSE i \in FailingLegs : \A j \in FailingLegs : i <= j
                  IN  /\ r.asked = k
                      /\ [i \in DOMAIN r.placed |-> r.placed[i].leg] = [i \in 1..(k - 1) |-> i]
                      /\ \A i \in 1..(k - 1) : \E c \in DOMAIN r.cancels : r.cancels[c] = i
            /\ \A i \in DOMAIN r.placed : r.placed[i].price > 0 /\ ~Unpriceable(r.placed[i].leg)
            /\ \A px \in r.sent : px > 0

\* a call that fails at its second leg after placing the first
C34_Witness ==
    /\ placing.phase = "done"
    /\ ~placing.result.ok
    /\ Len(placing.result.placed) = 1
    /\ placing.result.cancels = <<1>>

\* ---------------------------------------------------------------------------
\* SmartExecConfig.__post_init__ applied to one input. Times are whole seconds.
MaxSeconds == 25
allowed_strategies == {"top_of_book", "top_of_book_offset_pct", "mid", "mark"}
MinRepriceInterval == 10

\* round(x / 10) of Python 3: to the nearest integer, ties to the even one
RoundTenths(x) ==
    LET q == x \div 10
        r == x % 10
    IN  IF r < 5 THEN q
        ELSE IF r > 5 THEN q + 1
        ELSE IF q % 2 = 0 THEN q ELSE q + 1

post_init(cfg) ==
    LET c1 == IF cfg.quoting_strategy \notin allowed_strategies
              THEN [cfg EXCEPT !.quoting_strategy = "top_of_book"] ELSE cfg
        c2 == IF c1.reprice_interval < MinRepriceInterval
              THEN [c1 EXCEPT !.reprice_interval = MinRepriceInterval] ELSE c1
        c3 == IF c2.time_per_chunk % 10 # 0
              THEN [c2 EXCEPT !.time_per_chunk = RoundTenths(c2.time_per_chunk) * 10] ELSE c2
    IN  c3

SxcfgInit ==
    /\ OneTrade /\ rfq = RfqIdle /\ imp = ImpIdle
    /\ fm = [phase |-> "idle"] /\ runner = [phase |-> "idle"] /\ monitor = [phase |-> "idle"] /\ route = [phase |-> "idle"] /\ share = [phase |-> "idle"] /\ thr = [phase |-> "idle"] /\ baseline = [phase |-> "idle"] /\ placing = [phase |-> "idle"] /\ smartx = [phase |-> "idle"] /\ exits = [phase |-> "idle"] /\ workers = [phase |-> "idle"] /\ rtry = [phase |-> "idle"]
    /\ \E qs \in allowed_strategies \cup {"vwap"},
          ri \in 0..MaxSeconds, tpc \in (-MaxSeconds)..MaxSeconds :
          sxcfg = [phase |-> "new",
                   cfg |-> [quoting_strategy |-> qs, reprice_interval |-> ri, time_per_chunk |-> tpc]]

SxcfgPostInit ==
    /\ sxcfg.phase = "new"
    /\ sxcfg' = [phase |-> "validated", cfg |-> post_init(sxcfg.cfg)]
    /\ UNCHANGED <<lifeVars, rfq, imp, fm, runner, monitor, route, share, thr, baseline, placing, smartx, exits, workers, rtry>>

SxcfgSpec == SxcfgInit /\ [][SxcfgPostInit]_vars

\* C37: after validation the quoting strategy is a known one, the reprice
\* interval is at least 10 seconds and the time per chunk is positive.
C37_ValidatedConfig ==
    sxcfg.phase = "validated" =>
        /\ sxcfg.cfg.quoting_strategy \in allowed_strategies
        /\ sxcfg.cfg.reprice_interval >= MinRepriceInterval
        /\ sxcfg.cfg.time_per_chunk > 0

\* ---------------------------------------------------------------------------
\* LifecycleManager.tick over OPEN trades with exit conditions. A condition is
\* what its call does during the tick: return True, return False or raise.
MaxConds == 2
MaxOpenTrades == 2
CondOutcomes == {"true", "false", "raise"}
ExitConditions == UNION {[1..n -> CondOutcomes] : n \in 0..MaxConds}

\* an exception leaves the loop over the conditions
RECURSIVE exit_conditions_AbortOnRaise(_, _, _)
exit_conditions_AbortOnRaise(conds, i, called) ==
    IF i > Len(conds) THEN [state |-> "OPEN", called |-> called]
    ELSE IF conds[i] = "true" THEN [state |-> "PENDING_CLOSE", called |-> Append(called, i)]
    ELSE IF conds[i] = "raise" THEN [state |-> "OPEN", called |-> Append(called, i)]
    ELSE exit_conditions_AbortOnRaise(conds, i + 1, Append(called, i))

\* _exit_conditions_from(trade, account): the loop from condition i on; called is
\* the list of the conditions called so far
RECURSIVE exit_conditions_from(_, _, _)
exit_conditions_from(conds, i, called) ==
    IF i > Len(conds) THEN [state |-> "OPEN", called |-> called]
    ELSE IF conds[i] = "true" THEN [state |-> "PENDING_CLOSE", called |-> Append(called, i)]
    ELSE exit_conditions_from(conds, i + 1, Append(called, i))

ExitsInit ==
    /\ OneTrade /\ rfq = RfqIdle /\ imp = ImpIdle
    /\ fm = [phase |-> "idle"] /\ runner = [phase |-> "idle"] /\ monitor = [phase |-> "idle"] /\ route = [phase |-> "idle"] /\ share = [phase |-> "idle"] /\ thr = [phase |-> "idle"] /\ baseline = [phase |-> "idle"] /\ placing = [phase |-> "idle"] /\ smartx = [phase |-> "idle"] /\ sxcfg = [phase |-> "idle"] /\ workers = [phase |-> "idle"] /\ rtry = [phase |-> "idle"]
    /\ \E ec \in [1..MaxOpenTrades -> ExitConditions] :
          exits = [phase |-> "open",
                   trades |-> [t \in 1..MaxOpenTrades |->
                                  [state |-> "OPEN", exit_conditions |-> ec[t], called |-> <<>>]]]

\* tick(account): every active trade is OPEN and goes through _evaluate_exits
ExitsTick ==
    /\ exits.phase = "open"
    /\ exits' = [phase |-> "ticked",
                 trades |-> [t \in 1..MaxOpenTrades |->
                    LET r == exit_conditions_from(exits.trades[t].exit_conditions, 1, <<>>)
                    IN  [exits.trades[t] EXCEPT !.state = r.state, !.called = r.called]]]
    /\ UNCHANGED <<lifeVars, rfq, imp, fm, runner, monitor, route, share, thr, baseline, placing, smartx, sxcfg, workers, rtry>>

ExitsSpec == ExitsInit /\ [][ExitsTick]_vars

\* C38: in one tick every OPEN trade has its exit conditions called in the
\* configured order up to and including the first that returns true, which
\* moves the trade to PENDING_CLOSE; with none returning true all are called
\* and the trade stays OPEN; a raising condition neither closes the trade nor
\* stops the later conditions or the other trades.
C38_ExitsInOrder ==
    exits.phase = "ticked" =>
        \A t \in 1..MaxOpenTrades :
            LET tr == exits.trades[t]
                conds == tr.exit_conditions
                trues == {i \in DOMAIN conds : conds[i] = "true"}
            IN  IF trues = {}
                THEN tr.state = "OPEN" /\ tr.called = [i \in DOMAIN conds |-> i]
                ELSE LET k == CHOOSE i \in trues : \A j \in trues : i <= j
                     IN  tr.state = "PENDING_CLOSE" /\ tr.called = [i \in 1..k |-> i]

\* the first trade's first condition raised and its second closed the trade;
\* the second trade was evaluated in the same tick
C38_Witness ==
    /\ exits.phase = "ticked"
    /\ exits.trades[1].exit_conditions = <<"raise", "true">>
    /\ exits.trades[1].state = "PENDING_CLOSE"
    /\ exits.trades[2].called = <<1, 2>>

\* ---------------------------------------------------------------------------
\* One call through the wrapper of the retry decorator. Times are in
\* milliseconds, jitter in percent. outcomes[k] is what the k-th invocation of
\* the wrapped function does: return ("ok"), raise an exception of the retried
\* set ("retried"), or raise another exception ("other").
MaxAttempts == 3
backoff_jitter == 10
DelayFloor == 100
Backoffs == {50, 1000}
JitterDraws == {-backoff_jitter, 0, backoff_jitter}
FuncOutcomes == {"ok", "retried", "other"}

RECURSIVE Pow2(_)
Pow2(k) == IF k <= 0 THEN 1 ELSE 2 * Pow2(k - 1)

\* the delay without the exponential growth
retry_delay_NoGrowth(backoff_factor, attempt, u) ==
    Max(DelayFloor, backoff_factor + (backoff_factor * u) \div 100)

\* lines 69-74: the delay slept after failed attempt number attempt, with
\* random.uniform having drawn u
retry_delay(backoff_factor, attempt, u) ==
    LET delay == backoff_factor * Pow2(attempt - 1)
        jitter == (delay * u) \div 100
    IN  Max(DelayFloor, delay + jitter)

RetryInit ==
    /\ OneTrade /\ rfq = RfqIdle /\ imp = ImpIdle
    /\ fm = [phase |-> "idle"] /\ runner = [phase |-> "idle"] /\ monitor = [phase |-> "idle"] /\ route = [phase |-> "idle"] /\ share = [phase |-> "idle"] /\ thr = [phase |-> "idle"] /\ baseline = [phase |-> "idle"] /\ placing = [phase |-> "idle"] /\ smartx = [phase |-> "idle"] /\ sxcfg = [phase |-> "idle"] /\ exits = [phase |-> "idle"] /\ workers = [phase |-> "idle"]
    /\ \E n \in 1..MaxAttempts, b \in Backoffs :
       \E oc \in [1..n -> FuncOutcomes] :
          rtry = [phase |-> "running", max_attempts |-> n, backoff_factor |-> b,
                  outcomes |-> oc, attempt |-> 1, calls |-> 0, delays |-> <<>>,
                  raised |-> 0]

RetryAttempting == rtry.phase = "running" /\ rtry.attempt <= rtry.max_attempts

\* return func(*args, **kwargs)
RetryReturn ==
    /\ RetryAttempting
    /\ rtry.outcomes[rtry.attempt] = "ok"
    /\ rtry' = [rtry EXCEPT !.phase = "returned", !.calls = @ + 1]
    /\ UNCHANGED <<lifeVars, rfq, imp, fm, runner, monitor, route, share, thr, baseline, placing, smartx, sxcfg, exits, workers>>

\* an exception outside the retried set is not caught; one of the set is
\* re-raised on the last attempt
RetryRaise ==
    /\ RetryAttempting
    /\ \/ rtry.outcomes[rtry.attempt] = "other"
       \/ rtry.outcomes[rtry.attempt] = "retried" /\ rtry.attempt = rtry.max_attempts
    /\ rtry' = [rtry EXCEPT !.phase = "raised", !.calls = @ + 1, !.raised = rtry.attempt]
    /\ UNCHANGED <<lifeVars, rfq, imp, fm, runner, monitor, route, share, thr, baseline, placing, smartx, sxcfg, exits, workers>>

\* an exception of the retried set before the last attempt: sleep, next attempt
RetryBackoff ==
    /\ RetryAttempting
    /\ rtry.outcomes[rtry.attempt] = "retried" /\ rtry.attempt < rtry.max_attempts
    /\ \E u \in JitterDraws :
          rtry' = [rtry EXCEPT !.calls = @ + 1, !.attempt = @ + 1,
                               !.delays = Append(@, retry_delay(rtry.backoff_factor, rtry.attempt, u))]
    /\ UNCHANGED <<lifeVars, rfq, imp, fm, runner, monitor, route, share, thr, baseline, placing, smartx, sxcfg, exits, workers>>

RetryNext == RetryReturn \/ RetryRaise \/ RetryBackoff
RetrySpec == RetryInit /\ [][RetryNext]_vars

MaxWorkers == 2
WorkerIds == 1..MaxWorkers
Polling == {"fetch", "deliver"}

WorkersInit ==
    /\ OneTrade /\ rfq = RfqIdle /\ imp = ImpIdle
    /\ fm = [phase |-> "idle"] /\ runner = [phase |-> "idle"] /\ monitor = [phase |-> "idle"] /\ route = [phase |-> "idle"] /\ share = [phase |-> "idle"] /\ thr = [phase |-> "idle"] /\ baseline = [phase |-> "idle"] /\ placing = [phase |-> "idle"] /\ smartx = [phase |-> "idle"] /\ sxcfg = [phase |-> "idle"] /\ exits = [phase |-> "idle"] /\ rtry = [phase |-> "idle"]
    /\ workers = [phase |-> "made", running |-> FALSE, thread |-> 0,
                  pc |-> [w \in WorkerIds |-> "none"], caller |-> "idle", ignored |-> FALSE]

\* start() while _running is set: warn and return
StartIgnored ==
    /\ workers.caller = "idle" /\ workers.running
    /\ workers' = [workers EXCEPT !.ignored = TRUE]
    /\ UNCHANGED <<lifeVars, rfq, imp, fm, runner, monitor, route, share, thr, baseline, placing, smartx, sxcfg, exits, rtry>>

\* start(): set _running, create and start a new thread
StartWorker ==
    /\ workers.caller = "idle" /\ ~workers.running
    /\ \E w \in WorkerIds :
          /\ workers.pc[w] \in {"none", "done"}
          /\ workers' = [workers EXCEPT !.running = TRUE, !.thread = w, !.pc[w] = "check"]
    /\ UNCHANGED <<lifeVars, rfq, imp, fm, runner, monitor, route, share, thr, baseline, placing, smartx, sxcfg, exits, rtry>>

\* stop(): clear _running, then join the thread if there is one
StopBegin ==
    /\ workers.caller = "idle"
    /\ workers' = [workers EXCEPT !.running = FALSE,
                                  !.caller = IF workers.thread # 0 THEN "joining" ELSE "idle"]
    /\ UNCHANGED <<lifeVars, rfq, imp, fm, runner, monitor, route, share, thr, baseline, placing, smartx, sxcfg, exits, rtry>>

\* join() returns because the worker has left _poll_loop
StopJoined ==
    /\ workers.caller = "joining"
    /\ workers.pc[workers.thread] = "done"
    /\ workers' = [workers EXCEPT !.thread = 0, !.caller = "idle"]
    /\ UNCHANGED <<lifeVars, rfq, imp, fm, runner, monitor, route, share, thr, baseline, placing, smartx, sxcfg, exits, rtry>>

\* join(timeout) returns while the worker is still inside snapshot() or a
\* callback
StopTimeout ==
    /\ workers.caller = "joining"
    /\ workers.pc[workers.thread] \in Polling
    /\ workers' = [workers EXCEPT !.thread = 0, !.caller = "idle"]
    /\ UNCHANGED <<lifeVars, rfq, imp, fm, runner, monitor, route, share, thr, baseline, placing, smartx, sxcfg, exits, rtry>>

\* while self._running
WorkerCheck(w) ==
    /\ workers.pc[w] = "check"
    /\ workers' = [workers EXCEPT !.pc[w] = IF workers.running THEN "fetch" ELSE "done"]
    /\ UNCHANGED <<lifeVars, rfq, imp, fm, runner, monitor, route, share, thr, baseline, placing, smartx, sxcfg, exits, rtry>>

\* snap = self.snapshot()
WorkerFetch(w) ==
    /\ workers.pc[w] = "fetch"
    /\ workers' = [workers EXCEPT !.pc[w] = "deliver"]
    /\ UNCHANGED <<lifeVars, rfq, imp, fm, runner, monitor, route, share, thr, baseline, placing, smartx, sxcfg, exits, rtry>>

\* for cb in self._callbacks: cb(snap)
WorkerDeliver(w) ==
    /\ workers.pc[w] = "deliver"
    /\ workers' = [workers EXCEPT !.pc[w] = "sleep"]
    /\ UNCHANGED <<lifeVars, rfq, imp, fm, runner, monitor, route, share, thr, baseline, placing, smartx, sxcfg, exits, rtry>>

\* the sleep loop: return when _running is clear, else back to the while
WorkerSleep(w) ==
    /\ workers.pc[w] = "sleep"
    /\ workers' = [workers EXCEPT !.pc[w] = IF workers.running THEN "check" ELSE "done"]
    /\ UNCHANGED <<lifeVars, rfq, imp, fm, runner, monitor, route, share, thr, baseline, placing, smartx, sxcfg, exits, rtry>>

WorkerStep == \E w \in WorkerIds : WorkerCheck(w) \/ WorkerFetch(w) \/ WorkerDeliver(w) \/ WorkerSleep(w)

WorkersNext == StartIgnored \/ StartWorker \/ StopBegin \/ StopJoined \/ StopTimeout \/ WorkerStep
WorkersSpec == WorkersInit /\ [][WorkersNext]_vars

\* C39: at any time at most one poll worker is fetching a snapshot or
\* delivering one to the callbacks.
C39_OnePollWorker ==
    workers.phase = "made" =>
        Cardinality({w \in WorkerIds : workers.pc[w] \in Polling}) <= 1

\* ---------------------------------------------------------------------------
\* SmartOrderbookExecutor.execute_smart_multi_leg for one buy leg of LegQty
\* lots, against a venue that fills live orders at any moment. Quantities are
\* whole lots and min_order_qty is below one lot; a chunk quantity is taken
\* down to whole lots. wired says whether the executor was constructed with a
\* get_positions callable (strategy.py:111) or without one
\* (trade_lifecycle.py:273), in which case it reads an empty position list.
MaxChunks == 2
MaxAggressive == 1
MaxSmartOrders == 3

\* self._get_positions() reduced to the quantity of the leg's symbol
get_position(sx) == IF sx.wired THEN sx.position ELSE 0

\* LegChunkState.remaining_qty, LegChunkState.is_filled
chunk_remaining_qty(sx) == Max(0, sx.total_qty - sx.filled_qty)
chunk_leg_filled(sx) == sx.filled_qty >= sx.total_qty

\* the active order dropped without a cancel
cancel_active_Forget(sx) == [sx EXCEPT !.active = 0]

\* for symbol, order_id in active_orders.items(): cancel_order(order_id)
cancel_active(sx) ==
    IF sx.active = 0 THEN sx
    ELSE [sx EXCEPT !.orders[sx.active].live = FALSE,
                    !.orders[sx.active].cancelled = TRUE,
                    !.active = 0]

\* place_order(qty) answered with an order id, recorded in active_orders
place_smart_order(sx, qty) ==
    [sx EXCEPT !.orders = Append(@, [qty |-> qty, fill |-> 0, live |-> TRUE, cancelled |-> FALSE]),
               !.active = Len(sx.orders) + 1]

\* _check_order_fills(chunk_state, chunk_legs, active_orders)
check_order_fills(sx) ==
    IF sx.active = 0 \/ chunk_leg_filled(sx) THEN sx
    ELSE LET filled_in_chunk == Abs(get_position(sx) - sx.chunk_start)
         IN  IF filled_in_chunk > sx.filled_qty
             THEN [sx EXCEPT !.filled_qty = filled_in_chunk] ELSE sx

\* _execute_chunk returns: next iteration of the loop over the chunks
end_chunk(sx) == [sx EXCEPT !.pc = "chunk", !.chunk_idx = @ + 1]

SmartInit ==
    /\ OneTrade /\ rfq = RfqIdle /\ imp = ImpIdle
    /\ fm = [phase |-> "idle"] /\ runner = [phase |-> "idle"] /\ monitor = [phase |-> "idle"] /\ route = [phase |-> "idle"] /\ share = [phase |-> "idle"] /\ thr = [phase |-> "idle"] /\ baseline = [phase |-> "idle"] /\ placing = [phase |-> "idle"] /\ sxcfg = [phase |-> "idle"] /\ exits = [phase |-> "idle"] /\ workers = [phase |-> "idle"] /\ rtry = [phase |-> "idle"]
    /\ \E w \in BOOLEAN, cc \in 1..MaxChunks :
          smartx = [phase |-> "run", wired |-> w, chunk_count |-> cc, pc |-> "start",
                    chunk_idx |-> 0, position |-> 0, starting_position |-> 0,
                    filled_delta |-> 0, total_qty |-> 0, filled_qty |-> 0, chunk_start |-> 0,
                    active |-> 0, orders |-> <<>>, attempt |-> 0, total_filled_qty |-> 0]

\* lines 264-284: target quantities and starting positions
SmartStart ==
    /\ smartx.pc = "start"
    /\ smartx' = [smartx EXCEPT !.pc = "chunk", !.starting_position = get_position(smartx)]
    /\ UNCHANGED <<lifeVars, rfq, imp, fm, runner, monitor, route, share, thr, baseline, placing, sxcfg, exits, workers, rtry>>

\* lines 291-350 and _execute_chunk 474-507: measure progress, size the chunk,
\* initialise the chunk state
SmartChunkBegin ==
    /\ smartx.pc = "chunk" /\ smartx.chunk_idx < smartx.chunk_count
    /\ LET fd == Abs(get_position(smartx) - smartx.starting_position)
           remaining == Max(0, LegQty - fd)
           q == remaining \div (smartx.chunk_count - smartx.chunk_idx)
       IN  /\ remaining > 0
           /\ smartx' = [smartx EXCEPT !.pc = "quote_top", !.filled_delta = fd,
                                       !.total_qty = IF q < 1 THEN remaining ELSE q,
                                       !.filled_qty = 0, !.chunk_start = get_position(smartx),
                                       !.active = 0, !.attempt = 0]
    /\ UNCHANGED <<lifeVars, rfq, imp, fm, runner, monitor, route, share, thr, baseline, placing, sxcfg, exits, workers, rtry>>

\* lines 316-319: all legs filled, stop early
SmartStopEarly ==
    /\ smartx.pc = "chunk" /\ smartx.chunk_idx < smartx.chunk_count
    /\ LET fd == Abs(get_position(smartx) - smartx.starting_position)
       IN  /\ Max(0, LegQty - fd) = 0
           /\ smartx' = [smartx EXCEPT !.pc = "final", !.filled_delta = fd]
    /\ UNCHANGED <<lifeVars, rfq, imp, fm, runner, monitor, route, share, thr, baseline, placing, sxcfg, exits, workers, rtry>>

\* the loop over the chunks is exhausted
SmartChunksDone ==
    /\ smartx.pc = "chunk" /\ smartx.chunk_idx >= smartx.chunk_count
    /\ smartx' = [smartx EXCEPT !.pc = "final"]
    /\ UNCHANGED <<lifeVars, rfq, imp, fm, runner, monitor, route, share, thr, baseline, placing, sxcfg, exits, workers, rtry>>

\* Phase A, initial placement: no active order; the order is for the
\* remaining quantity and may be refused
SmartPlaceInitial ==
    /\ smartx.pc = "quote_top" /\ smartx.active = 0
    /\ \E ok \in BOOLEAN :
          smartx' = IF ok /\ ~chunk_leg_filled(smartx) /\ Len(smartx.orders) < MaxSmartOrders
                    THEN [place_smart_order(smartx, chunk_remaining_qty(smartx)) EXCEPT !.pc = "quote_check"]
                    ELSE [smartx EXCEPT !.pc = "quote_check"]
    /\ UNCHANGED <<lifeVars, rfq, imp, fm, runner, monitor, route, share, thr, baseline, placing, sxcfg, exits, workers, rtry>>

\* Phase A, reprice: cancel the active orders, place new ones for the
\* remaining quantity
SmartReprice ==
    /\ smartx.pc = "quote_top" /\ smartx.active # 0 /\ ~chunk_leg_filled(smartx)
    /\ \E ok \in BOOLEAN :
          LET c == cancel_active(smartx)
          IN  smartx' = IF ok /\ Len(smartx.orders) < MaxSmartOrders
                        THEN [place_smart_order(c, chunk_remaining_qty(c)) EXCEPT !.pc = "quote_check"]
                        ELSE [c EXCEPT !.pc = "quote_check"]
    /\ UNCHANGED <<lifeVars, rfq, imp, fm, runner, monitor, route, share, thr, baseline, placing, sxcfg, exits, workers, rtry>>

\* Phase A, no reprice due
SmartKeep ==
    /\ smartx.pc = "quote_top" /\ smartx.active # 0
    /\ smartx' = [smartx EXCEPT !.pc = "quote_check"]
    /\ UNCHANGED <<lifeVars, rfq, imp, fm, runner, monitor, route, share, thr, baseline, placing, sxcfg, exits, workers, rtry>>

\* Phase A, monitor fills; all filled: cancel what is active and return
SmartCheckFills ==
    /\ smartx.pc = "quote_check"
    /\ LET c == check_order_fills(smartx)
       IN  smartx' = IF chunk_leg_filled(c) THEN end_chunk(cancel_active(c))
                     ELSE [c EXCEPT !.pc = "quote_top"]
    /\ UNCHANGED <<lifeVars, rfq, imp, fm, runner, monitor, route, share, thr, baseline, placing, sxcfg, exits, workers, rtry>>

\* Phase A to Phase B: time expired, cancel the remaining orders
SmartExpire ==
    /\ smartx.pc = "quote_top"
    /\ smartx' = [cancel_active(smartx) EXCEPT !.pc = "fallback_top"]
    /\ UNCHANGED <<lifeVars, rfq, imp, fm, runner, monitor, route, share, thr, baseline, placing, sxcfg, exits, workers, rtry>>

\* Phase B, one aggressive attempt: an order for the remaining quantity, which
\* may be refused
SmartAggressive ==
    /\ smartx.pc = "fallback_top"
    /\ smartx.attempt < MaxAggressive /\ ~chunk_leg_filled(smartx)
    /\ \E ok \in BOOLEAN :
          smartx' = IF ok /\ chunk_remaining_qty(smartx) > 0 /\ Len(smartx.orders) < MaxSmartOrders
                    THEN [place_smart_order(smartx, chunk_remaining_qty(smartx))
                             EXCEPT !.pc = "fallback_wait", !.attempt = @ + 1]
                    ELSE [smartx EXCEPT !.attempt = @ + 1]
    /\ UNCHANGED <<lifeVars, rfq, imp, fm, runner, monitor, route, share, thr, baseline, placing, sxcfg, exits, workers, rtry>>

\* Phase B, monitoring during the wait
SmartAggressiveCheck ==
    /\ smartx.pc = "fallback_wait"
    /\ smartx' = check_order_fills(smartx)
    /\ smartx' # smartx
    /\ UNCHANGED <<lifeVars, rfq, imp, fm, runner, monitor, route, share, thr, baseline, placing, sxcfg, exits, workers, rtry>>

\* Phase B, end of the wait: cancel the attempt's orders
SmartAggressiveEnd ==
    /\ smartx.pc = "fallback_wait"
    /\ LET c == cancel_active(smartx)
       IN  smartx' = IF chunk_leg_filled(c) THEN end_chunk(c) ELSE [c EXCEPT !.pc = "fallback_top"]
    /\ UNCHANGED <<lifeVars, rfq, imp, fm, runner, monitor, route, share, thr, baseline, placing, sxcfg, exits, workers, rtry>>

\* Phase B over: attempts exhausted or all filled
SmartFallbackDone ==
    /\ smartx.pc = "fallback_top"
    /\ smartx.attempt >= MaxAggressive \/ chunk_leg_filled(smartx)
    /\ smartx' = end_chunk(smartx)
    /\ UNCHANGED <<lifeVars, rfq, imp, fm, runner, monitor, route, share, thr, baseline, placing, sxcfg, exits, workers, rtry>>

\* lines 357-389: final position check and result
SmartReturn ==
    /\ smartx.pc = "final"
    /\ LET fd == Abs(get_position(smartx) - smartx.starting_position)
       IN  smartx' = [smartx EXCEPT !.pc = "returned", !.filled_delta = fd, !.total_filled_qty = fd]
    /\ UNCHANGED <<lifeVars, rfq, imp, fm, runner, monitor, route, share, thr, baseline, placing, sxcfg, exits, workers, rtry>>

\* the venue fills part or all of a live order
SmartVenueFill ==
    /\ smartx.phase = "run"
    /\ \E i \in DOMAIN smartx.orders :
          /\ smartx.orders[i].live
          /\ \E a \in 1..(smartx.orders[i].qty - smartx.orders[i].fill) :
                smartx' = [smartx EXCEPT !.orders[i].fill = @ + a,
                                         !.orders[i].live = smartx.orders[i].fill + a < smartx.orders[i].qty,
                                         !.position = @ + a]
    /\ UNCHANGED <<lifeVars, rfq, imp, fm, runner, monitor, route, share, thr, baseline, placing, sxcfg, exits, workers, rtry>>

SmartNext ==
    \/ SmartStart \/ SmartChunkBegin \/ SmartStopEarly \/ SmartChunksDone
    \/ SmartPlaceInitial \/ SmartReprice \/ SmartKeep \/ SmartCheckFills \/ SmartExpire
    \/ SmartAggressive \/ SmartAggressiveCheck \/ SmartAggressiveEnd \/ SmartFallbackDone
    \/ SmartReturn \/ SmartVenueFill

SmartSpec == SmartInit /\ [][SmartNext]_vars

\* C35: what the executor has ordered and not cancelled never exceeds the
\* target, so the quantity filled never exceeds it; and when it returns with
\* every order it placed filled completely and every chunk run, the reported
\* total_filled_qty equals the target.
C35_NeverOverTarget ==
    smartx.phase = "run" =>
        /\ smartx.position <= LegQty
        /\ \A i \in DOMAIN smartx.orders :
              smartx.orders[i].live => smartx.position + (smartx.orders[i].qty - smartx.orders[i].fill) <= LegQty
        /\ (/\ smartx.pc = "returned"
            /\ smartx.orders # <<>>
            /\ \A i \in DOMAIN smartx.orders : smartx.orders[i].fill = smartx.orders[i].qty
            /\ smartx.position >= LegQty)
              => smartx.total_filled_qty = LegQty

====
